---- MODULE Spec2Model ----
(***************************************************************************)
(* kakeibo: receipt OCR line extraction (ocr_client.py) and the category   *)
(* resolver (utils.py), with the stores they read (models.py).             *)
(*                                                                         *)
(* Strings are sequences of Unicode code points, so that length, order,    *)
(* substring and normalisation are computed on the characters themselves.  *)
(* A Category object is represented by its primary key; None is 0.         *)
(***************************************************************************)
EXTENDS Integers, Sequences, FiniteSets, TLC

VARIABLES
    categories,    \* Category table: set of rows [id, name, household]
    heapFirst,     \* ids of the rows the database returns first among rows of equal name
    rules,         \* CategoryRule table: sequence of rows [keyword, category] in storage order
    CATEGORY_AI,   \* settings.CATEGORY_AI: [enabled, threshold (hundredths)]
    call,          \* the last guess_category call and what it returned
    el,            \* the extract_lines call: where it is, what it received and computed
    up,            \* ReceiptUploadView: where the request is, and request.session
    image,         \* the image source handed to extract_lines and what was made of it
    provider,      \* what the remote classifier answers when it is asked
    pr,            \* the parse_receipt call: where it is and what it returned
    uploads,       \* the upload requests being served, each with its own locals
    sessions,      \* request.session of each browser session
    form,          \* the ExpenseForm being submitted
    expenses       \* Expense table: sequence of rows [item, category]

resolverVars == <<categories, heapFirst, rules, CATEGORY_AI, call, provider>>

\* the variables of parse_receipt, of the concurrent uploads and of the expense form
sideVars == <<pr, uploads, sessions, form, expenses>>

vars == <<categories, heapFirst, rules, CATEGORY_AI, call, el, up, image, provider, sideVars>>

(***************************************************************************)
(* Bounds                                                                  *)
(***************************************************************************)
MaxRules == 2          \* rows in the CategoryRule table
MaxTokens == 3         \* words in a response of the OCR service
MaxWords == 2          \* words in the service's answer to an uploaded receipt
MaxBytes == 2          \* bytes in an image source
MaxUploads == 2        \* receipt uploads served at the same time
MaxExpenses == 1       \* rows in the Expense table

(***************************************************************************)
(* Python values                                                           *)
(***************************************************************************)
None == 0

Max(a, b) == IF a >= b THEN a ELSE b

Range(f) == {f[i] : i \in DOMAIN f}

\* `a in b` for str
Contains(b, a) ==
    \E i \in 0..(Len(b) - Len(a)) : SubSeq(b, i + 1, i + Len(a)) = a

\* a < b for str: code point order, a proper prefix first
LexLess(a, b) ==
    \E i \in 1..(Max(Len(a), Len(b)) + 1) :
        /\ \A j \in 1..(i - 1) : j <= Len(a) /\ j <= Len(b) /\ a[j] = b[j]
        /\ \/ i = Len(a) + 1 /\ i <= Len(b)
           \/ i <= Len(a) /\ i <= Len(b) /\ a[i] < b[i]

(***************************************************************************)
(* unicodedata.normalize("NFKC", s).lower(), on the code points the model  *)
(* uses: ASCII, the fullwidth forms U+FF01..U+FF5E, the ideographic space, *)
(* the halfwidth katakana block U+FF61..U+FF9F (with the composition of    *)
(* the voiced and semi-voiced sound marks), and kana/kanji that NFKC       *)
(* leaves alone.                                                           *)
(***************************************************************************)
\* compatibility decompositions of U+FF61..U+FF9F, in code point order
HalfwidthTable ==
  <<12290, 12300, 12301, 12289, 12539, 12530, 12449, 12451, 12453, 12455,
    12457, 12515, 12517, 12519, 12483, 12540, 12450, 12452, 12454, 12456,
    12458, 12459, 12461, 12463, 12465, 12467, 12469, 12471, 12473, 12475,
    12477, 12479, 12481, 12484, 12486, 12488, 12490, 12491, 12492, 12493,
    12494, 12495, 12498, 12501, 12504, 12507, 12510, 12511, 12512, 12513,
    12514, 12516, 12518, 12520, 12521, 12522, 12523, 12524, 12525, 12527,
    12531, 12441, 12442>>

\* canonical compositions <<starter, mark, composed>> of katakana with
\* U+3099 (voiced) and U+309A (semi-voiced)
CompositionPairs ==
  {<<12454, 12441, 12532>>, <<12459, 12441, 12460>>, <<12461, 12441, 12462>>,
   <<12463, 12441, 12464>>, <<12465, 12441, 12466>>, <<12467, 12441, 12468>>,
   <<12469, 12441, 12470>>, <<12471, 12441, 12472>>, <<12473, 12441, 12474>>,
   <<12475, 12441, 12476>>, <<12477, 12441, 12478>>, <<12479, 12441, 12480>>,
   <<12481, 12441, 12482>>, <<12484, 12441, 12485>>, <<12486, 12441, 12487>>,
   <<12488, 12441, 12489>>, <<12495, 12441, 12496>>, <<12495, 12442, 12497>>,
   <<12498, 12441, 12499>>, <<12498, 12442, 12500>>, <<12501, 12441, 12502>>,
   <<12501, 12442, 12503>>, <<12504, 12441, 12505>>, <<12504, 12442, 12506>>,
   <<12507, 12441, 12508>>, <<12507, 12442, 12509>>, <<12527, 12441, 12535>>,
   <<12528, 12441, 12536>>, <<12529, 12441, 12537>>, <<12530, 12441, 12538>>,
   <<12541, 12441, 12542>>}

\* compatibility decomposition of one code point
Compat(c) ==
    IF c \in 65281..65374 THEN c - 65248                 \* fullwidth ASCII
    ELSE IF c = 12288 THEN 32                            \* ideographic space
    ELSE IF c \in 65377..65439 THEN HalfwidthTable[c - 65376]
    ELSE c

RECURSIVE Compose(_)
Compose(s) ==
    IF Len(s) < 2 THEN s
    ELSE LET p == {t \in CompositionPairs : t[1] = s[1] /\ t[2] = s[2]}
         IN  IF p # {}
             THEN Compose(<<(CHOOSE t \in p : TRUE)[3]>> \o SubSeq(s, 3, Len(s)))
             ELSE <<s[1]>> \o Compose(Tail(s))

NFKC(s) == Compose([i \in 1..Len(s) |-> Compat(s[i])])

\* str.lower() of one code point
LowerChar(c) == IF c \in 65..90 THEN c + 32 ELSE c

lower(s) == [i \in 1..Len(s) |-> LowerChar(s[i])]

\* the mutant of _norm: no folding at all
norm_identity(s) == s

_norm(s) ==
    IF s = <<>> THEN <<>> ELSE lower(NFKC(s))

(***************************************************************************)
(* FALLBACK_KEYWORDS, in declared order                                    *)
(***************************************************************************)
FALLBACK_KEYWORDS ==
  <<
    \* 食費: 昼ご飯, 夕飯, 弁当, 外食, レストラン, マクド, ローソン, セブン, スーパー
    [name |-> <<39135, 36027>>,
     words |-> <<<<26172, 12372, 39151>>,
                 <<22805, 39151>>,
                 <<24321, 24403>>,
                 <<22806, 39135>>,
                 <<12524, 12473, 12488, 12521, 12531>>,
                 <<12510, 12463, 12489>>,
                 <<12525, 12540, 12477, 12531>>,
                 <<12475, 12502, 12531>>,
                 <<12473, 12540, 12497, 12540>>>>],
    \* 住宅: 家賃, ローン, 管理費
    [name |-> <<20303, 23429>>,
     words |-> <<<<23478, 36035>>,
                 <<12525, 12540, 12531>>,
                 <<31649, 29702, 36027>>>>],
    \* 水道光熱: 電気代, ガス代, 水道代, 電気, ガス, 水道
    [name |-> <<27700, 36947, 20809, 29105>>,
     words |-> <<<<38651, 27671, 20195>>,
                 <<12460, 12473, 20195>>,
                 <<27700, 36947, 20195>>,
                 <<38651, 27671>>,
                 <<12460, 12473>>,
                 <<27700, 36947>>>>],
    \* 通信: スマホ, 携帯, 通信, wifi, インターネット
    [name |-> <<36890, 20449>>,
     words |-> <<<<12473, 12510, 12507>>,
                 <<25658, 24111>>,
                 <<36890, 20449>>,
                 <<119, 105, 102, 105>>,
                 <<12452, 12531, 12479, 12540, 12493, 12483, 12488>>>>],
    \* 交通: バス, 電車, 地下鉄, 切符, 高速, ガソリン, 駐車場, レンタカー, タクシー
    [name |-> <<20132, 36890>>,
     words |-> <<<<12496, 12473>>,
                 <<38651, 36554>>,
                 <<22320, 19979, 37444>>,
                 <<20999, 31526>>,
                 <<39640, 36895>>,
                 <<12460, 12477, 12522, 12531>>,
                 <<39376, 36554, 22580>>,
                 <<12524, 12531, 12479, 12459, 12540>>,
                 <<12479, 12463, 12471, 12540>>>>],
    \* 日用品: ドラッグ, 洗剤, ティッシュ, トイレットペーパー
    [name |-> <<26085, 29992, 21697>>,
     words |-> <<<<12489, 12521, 12483, 12464>>,
                 <<27927, 21092>>,
                 <<12486, 12451, 12483, 12471, 12517>>,
                 <<12488, 12452, 12524, 12483, 12488, 12506, 12540, 12497, 12540>>>>],
    \* 交際費: 飲み会, プレゼント, 会食
    [name |-> <<20132, 38555, 36027>>,
     words |-> <<<<39154, 12415, 20250>>,
                 <<12503, 12524, 12476, 12531, 12488>>,
                 <<20250, 39135>>>>],
    \* 医療: 病院, 薬, 処方, 診察
    [name |-> <<21307, 30274>>,
     words |-> <<<<30149, 38498>>,
                 <<34220>>,
                 <<20966, 26041>>,
                 <<35386, 23519>>>>],
    \* 教育・教養: 本, 書籍, kindle, 受講, 授業料
    [name |-> <<25945, 32946, 12539, 25945, 39178>>,
     words |-> <<<<26412>>,
                 <<26360, 31821>>,
                 <<107, 105, 110, 100, 108, 101>>,
                 <<21463, 35611>>,
                 <<25480, 26989, 26009>>>>]
  >>

\* the (group, word) pairs in the order the two nested loops visit them
RECURSIVE FlattenFrom(_, _)
FlattenFrom(d, g) ==
    IF g > Len(d) THEN <<>>
    ELSE [i \in 1..Len(d[g].words) |-> [name |-> d[g].name, word |-> d[g].words[i]]]
         \o FlattenFrom(d, g + 1)

FallbackScan == FlattenFrom(FALLBACK_KEYWORDS, 1)

\* _norm(w) of every word, in scan order
NormalizedScan ==
    [i \in 1..Len(FallbackScan) |->
        [name |-> FallbackScan[i].name, word |-> _norm(FallbackScan[i].word)]]

(***************************************************************************)
(* Inputs: the rows the administrator may store and the strings callers    *)
(* pass.  Two Category rows share the name 食費: unique_together is        *)
(* (household, name), so the same name may exist once per household.       *)
(***************************************************************************)
CategoryUniverse ==
    { [id |-> 1, name |-> <<39135, 36027>>, household |-> 1],                \* 食費
      [id |-> 2, name |-> <<20132, 36890>>, household |-> 1],                \* 交通
      [id |-> 3, name |-> <<39135, 36027>>, household |-> 2] }               \* 食費

CategoryIds == {c.id : c \in CategoryUniverse}

Keywords ==
    { <<12475, 12502, 12531>>,                              \* "セブン"
      <<65406, 65420, 65438, 65437>>,                       \* "ｾﾌﾞﾝ" (halfwidth, 4 code points)
      <<12475, 12502, 12531, 12452, 12524, 12502, 12531>>,  \* "セブンイレブン"
      <<65, 84, 77>> }                                      \* "ATM"

\* (item, memo) pairs
Inputs ==
    { \* "セブンイレブン ATM", ""
      <<<<12475, 12502, 12531, 12452, 12524, 12502, 12531, 32, 65, 84, 77>>, <<>>>>,
      \* "ｾﾌﾞﾝｲﾚﾌﾞﾝ ａｔｍ", "": the same in halfwidth kana and fullwidth Latin
      <<<<65406, 65420, 65438, 65437, 65394, 65434, 65420, 65438, 65437, 32,
          65345, 65364, 65357>>, <<>>>>,
      \* "弁当", "電車"
      <<<<24321, 24403>>, <<38651, 36554>>>>,
      \* "ランダムな文字列", ""
      <<<<12521, 12531, 12480, 12512, 12394, 25991, 23383, 21015>>, <<>>>> }

(***************************************************************************)
(* utils.py                                                                *)
(***************************************************************************)
\* the mutant of _get_category_by_name: any row of that name, as if the
\* database broke the tie anew on every query
_get_category_by_name_any_row(name, cats, first) ==
    IF name = <<>> THEN {None}
    ELSE LET found == {c \in cats : c.name = name}
         IN  IF found = {} THEN {None} ELSE {c.id : c \in found}

\* Category.objects.filter(name=name).first(): Meta.ordering is ['name'], so
\* the query is ORDER BY name LIMIT 1 over rows that all tie, and the row
\* returned is the one the database stores first.  The set of the values
\* the call can return.
_get_category_by_name(name, cats, first) ==
    IF name = <<>> THEN {None}
    ELSE LET found == {c \in cats : c.name = name}
         IN  IF found = {} THEN {None} ELSE {c.id : c \in found} \cap first

\* _cloud_classify answers (label, score) or nothing; score in hundredths
NoAnswer == [answered |-> FALSE, label |-> <<>>, score |-> 0]

_cloud_classify(text, cfg) ==
    IF ~cfg.enabled THEN NoAnswer
    ELSE NoAnswer        \* the provider call is not implemented: return None

\* .annotate(klen=Length("keyword")).order_by("-klen", "keyword")
RuleBefore(r1, r2) ==
    \/ Len(r1.keyword) > Len(r2.keyword)
    \/ Len(r1.keyword) = Len(r2.keyword) /\ LexLess(r1.keyword, r2.keyword)

RemoveAt(s, i) == SubSeq(s, 1, i - 1) \o SubSeq(s, i + 1, Len(s))

\* the mutant of OrderedRules: the rows as stored, no ORDER BY
StorageOrderRules(rs) == rs

RECURSIVE OrderedRules(_)
OrderedRules(rs) ==
    IF rs = <<>> THEN <<>>
    ELSE LET i == CHOOSE k \in 1..Len(rs) :
                      \A j \in 1..Len(rs) : j = k \/ RuleBefore(rs[k], rs[j])
         IN  <<rs[i]>> \o OrderedRules(RemoveAt(rs, i))

\* for r in rules: if _norm(r.keyword) in text: return r.category
RuleTier(text, rs) ==
    LET ordered == OrderedRules(rs)
        hits == {i \in 1..Len(ordered) : Contains(text, _norm(ordered[i].keyword))}
    IN  IF hits = {} THEN None
        ELSE ordered[CHOOSE i \in hits : \A j \in hits : i <= j].category

\* the mutant of DictionaryTier: the first word that hits decides, whether
\* or not its category exists
DictionaryTierFirstHitOnly(text, cats, first) ==
    LET hits == {i \in 1..Len(NormalizedScan) : Contains(text, NormalizedScan[i].word)}
    IN  IF hits = {} THEN {None}
        ELSE _get_category_by_name(
                 NormalizedScan[CHOOSE i \in hits : \A j \in hits : i <= j].name, cats, first)

\* for cat_name, words in FALLBACK_KEYWORDS.items(): for w in words:
\*     if _norm(w) in text: found = _get_category_by_name(cat_name); if found: return found
DictionaryTier(text, cats, first) ==
    LET hits == {i \in 1..Len(NormalizedScan) :
                    /\ Contains(text, NormalizedScan[i].word)
                    /\ _get_category_by_name(NormalizedScan[i].name, cats, first) # {None}}
    IN  IF hits = {} THEN {None}
        ELSE _get_category_by_name(
                 NormalizedScan[CHOOSE i \in hits : \A j \in hits : i <= j].name, cats, first)

\* label_score = _cloud_classify(text); if label_score: ... if score >= threshold
CloudTier(text, cats, first, cfg) ==
    LET label_score == _cloud_classify(text, cfg)
    IN  IF label_score.answered /\ label_score.score >= cfg.threshold
        THEN _get_category_by_name(label_score.label, cats, first)
        ELSE {None}

\* tiers 3 and 4, entered when no rule matched
AfterRules(text, cats, first, cfg) ==
    LET d == DictionaryTier(text, cats, first)
    IN  IF d # {None}
        THEN {[result |-> c, consulted |-> <<"rules", "dictionary">>] : c \in d}
        ELSE {[result |-> c, consulted |-> <<"rules", "dictionary", "cloud">>] :
                 c \in CloudTier(text, cats, first, cfg)}

\* what guess_category does once user_choice is known to be None
Cascade(item, memo, rs, cats, first, cfg) ==
    LET text == _norm(item \o <<32>> \o memo)
        r == RuleTier(text, rs)
    IN  IF r # None
        THEN {[result |-> r, consulted |-> <<"rules">>]}
        ELSE AfterRules(text, cats, first, cfg)

\* a mutant of guess_category: user_choice is not looked at
guess_category_ignoring_choice(item, memo, user_choice, rs, cats, first, cfg) ==
    Cascade(item, memo, rs, cats, first, cfg)

\* a mutant of guess_category: the dictionary is tried before the rules
guess_category_dictionary_first(item, memo, user_choice, rs, cats, first, cfg) ==
    IF user_choice # None
    THEN {[result |-> user_choice, consulted |-> <<>>]}
    ELSE LET text == _norm(item \o <<32>> \o memo)
             d == DictionaryTier(text, cats, first)
         IN  IF d # {None}
             THEN {[result |-> c, consulted |-> <<"dictionary">>] : c \in d}
             ELSE Cascade(item, memo, rs, cats, first, cfg)

\* a mutant of guess_category: when no tier matches, some stored category is
\* returned in place of None
guess_category_with_default(item, memo, user_choice, rs, cats, first, cfg) ==
    IF user_choice # None
    THEN {[result |-> user_choice, consulted |-> <<>>]}
    ELSE {[result |-> IF o.result = None /\ cats # {}
                      THEN (CHOOSE c \in cats : \A d \in cats : c.id <= d.id).id
                      ELSE o.result,
           consulted |-> o.consulted] : o \in Cascade(item, memo, rs, cats, first, cfg)}

\* the values guess_category can return, each with the tiers it consulted
guess_category(item, memo, user_choice, rs, cats, first, cfg) ==
    IF user_choice # None
    THEN {[result |-> user_choice, consulted |-> <<>>]}
    ELSE Cascade(item, memo, rs, cats, first, cfg)

\* the mutant of CategoriesAfterGuess: a dictionary word that hits while no
\* Category has its name makes guess_category create the row (get_or_create)
CategoriesAfterGetOrCreate(item, memo, user_choice, rs, cats) ==
    LET text == _norm(item \o <<32>> \o memo)
        hits == {i \in 1..Len(NormalizedScan) :
                    /\ Contains(text, NormalizedScan[i].word)
                    /\ \A c \in cats : c.name # NormalizedScan[i].name}
    IN  IF user_choice # None \/ hits = {} THEN cats
        ELSE cats \cup {[id |-> 4, household |-> 1,
                         name |-> NormalizedScan[CHOOSE i \in hits : \A j \in hits : i <= j].name]}

\* the Category table after guess_category(item, memo, user_choice): every
\* ORM call of guess_category and _get_category_by_name is a query
\* (select_related().annotate().order_by(), filter().first()); there is no
\* create, save, update or delete
CategoriesAfterGuess(item, memo, user_choice, rs, cats) == cats

(***************************************************************************)
(* ocr_client.py: str methods and the regular expressions of the line      *)
(* classifier.  A pattern is a sequence of elements, each a character      *)
(* class with a repetition range (max < 0: unbounded); a regex is the set  *)
(* of its alternatives.                                                    *)
(***************************************************************************)
Least(S) == CHOOSE i \in S : \A j \in S : i <= j

Greatest(S) == CHOOSE i \in S : \A j \in S : i >= j

Abs(n) == IF n < 0 THEN -n ELSE n

Front(s) == SubSeq(s, 1, Len(s) - 1)

Last(s) == s[Len(s)]

\* str.isspace() and \s
Whitespace ==
    {9, 10, 11, 12, 13, 28, 29, 30, 31, 32, 133, 160, 5760} \cup (8192..8202)
        \cup {8232, 8233, 8239, 8287, 12288}

\* [0-9]
AsciiDigit == 48..57

\* \d: the decimal digits, of which the model's strings use the ASCII and
\* the fullwidth ones
UnicodeDigit == (48..57) \cup (65296..65305)

RECURSIVE Replace(_, _, _)
\* s.replace(c, r) for a one-character c
Replace(s, c, r) ==
    IF s = <<>> THEN <<>>
    ELSE (IF Head(s) = c THEN r ELSE <<Head(s)>>) \o Replace(Tail(s), c, r)

\* s.strip(chars)
Strip(s, chars) ==
    LET keep == {i \in 1..Len(s) : s[i] \notin chars}
    IN  IF keep = {} THEN <<>> ELSE SubSeq(s, Least(keep), Greatest(keep))

RECURSIVE int(_)
\* int(s) for a string of ASCII digits
int(s) == IF s = <<>> THEN 0 ELSE 10 * int(Front(s)) + (Last(s) - 48)

One(S) == [chars |-> S, min |-> 1, max |-> 1]

Opt(S) == [chars |-> S, min |-> 0, max |-> 1]

Rep(S, lo, hi) == [chars |-> S, min |-> lo, max |-> hi]

AtLeast(S, lo) == [chars |-> S, min |-> lo, max |-> -1]

Lit(w) == [i \in 1..Len(w) |-> One({w[i]})]

RECURSIVE RunLength(_, _, _, _)
\* how many characters of s from position i on are in chars, up to hi
RunLength(s, i, chars, hi) ==
    IF hi = 0 \/ i > Len(s) \/ s[i] \notin chars THEN 0
    ELSE 1 + RunLength(s, i + 1, chars, hi - 1)

RECURSIVE Ends(_, _, _, _)
\* the positions just after a match of pat[k..] that starts at position i
Ends(pat, k, s, i) ==
    IF k > Len(pat) THEN {i}
    ELSE LET e == pat[k]
             r == RunLength(s, i, e.chars, IF e.max < 0 THEN Len(s) ELSE e.max)
         IN  UNION {Ends(pat, k + 1, s, i + n) : n \in e.min..r}

\* regex.search(s)
search(regex, s) ==
    \E pat \in regex, i \in 1..(Len(s) + 1) : Ends(pat, 1, s, i) # {}

TelTail ==
    << Opt({58, 65306}), AtLeast(Whitespace, 0),
       Rep(UnicodeDigit, 2, 4), Opt({45, 8208, 8211, 8213, 12540}),
       Rep(UnicodeDigit, 2, 4), Opt({45, 8208, 8211, 8213, 12540}),
       Rep(UnicodeDigit, 3, 4) >>

\* (TEL|電話|CALL)[:：]?\s*\d{2,4}[-‐–―ー]?\d{2,4}[-‐–―ー]?\d{3,4}
TEL_RE ==
    { Lit(w) \o TelTail :
        w \in { <<84, 69, 76>>, <<38651, 35441>>, <<67, 65, 76, 76>> } }

\* (ﾎﾟｲﾝﾄ|ポイント|T-?POINT|楽天ポイント|dポイント|P[ ：]?\d+)
POINT_RE ==
    { Lit(<<65422, 65439, 65394, 65437, 65412>>),
      Lit(<<12509, 12452, 12531, 12488>>),
      Lit(<<84>>) \o << Opt({45}) >> \o Lit(<<80, 79, 73, 78, 84>>),
      Lit(<<27005, 22825, 12509, 12452, 12531, 12488>>),
      Lit(<<100, 12509, 12452, 12531, 12488>>),
      << One({80}), Opt({32, 65306}), AtLeast(UnicodeDigit, 1) >> }

IGNORE_HARD ==
    { <<12362, 36023, 19978>>,         \* お買上
      <<38936, 21454>>,                \* 領収
      <<12354, 12426, 12364, 12392, 12358, 12372, 12374, 12356, 12414,
        12375, 12383>>,                \* ありがとうございました
      <<36605, 28187, 31246, 29575>>,  \* 軽減税率
      <<23567, 35336, 23550, 35937>>,  \* 小計対象
      <<12524, 12472>>,                \* レジ
      <<25285, 24403>>,                \* 担当
      <<21512, 35336, 28857, 25968>>,  \* 合計点数
      <<23567, 35336>>,                \* 小計
      <<21512, 35336>>,                \* 合計
      <<31246, 36796>>,                \* 税込
      <<31246, 25244>>,                \* 税抜
      <<20869, 31246>>,                \* 内税
      <<22806, 31246>>,                \* 外税
      <<21106, 24341>>,                \* 割引
      <<20516, 24341>>,                \* 値引
      <<12463, 12540, 12509, 12531>>,  \* クーポン
      <<20250, 21729>>,                \* 会員
      <<78, 111, 46>>,                 \* No.
      <<8470>> }                       \* №

\* (会員|会員番号|ﾒﾝﾊﾞｰ|ID)[:：]?\s*[A-Z0-9\-]{6,}
MEMBER_RE ==
    { Lit(w) \o << Opt({58, 65306}), AtLeast(Whitespace, 0),
                   AtLeast((65..90) \cup (48..57) \cup {45}, 6) >> :
        w \in { <<20250, 21729>>, <<20250, 21729, 30058, 21495>>,
                <<65426, 65437, 65418, 65438, 65392>>, <<73, 68>> } }

\* (VISA|MASTER|JCB|AMEX|WAON|nanaco|Suica|PASMO|PayPay|楽天Edy)
CARD_RE ==
    { Lit(w) :
        w \in { <<86, 73, 83, 65>>, <<77, 65, 83, 84, 69, 82>>, <<74, 67, 66>>,
                <<65, 77, 69, 88>>, <<87, 65, 79, 78>>,
                <<110, 97, 110, 97, 99, 111>>, <<83, 117, 105, 99, 97>>,
                <<80, 65, 83, 77, 79>>, <<80, 97, 121, 80, 97, 121>>,
                <<27005, 22825, 69, 100, 121>> } }

\* [＊*#]{4,}
MASK_RE == { << AtLeast({65290, 42, 35}, 4) >> }

RECURSIVE Thousands(_, _)
\* (?:[,，][0-9]{3})+ from position j
Thousands(s, j) ==
    LET once == Ends(<< One({44, 65292}), Rep(AsciiDigit, 3, 3) >>, 1, s, j)
    IN  once \cup UNION {Thousands(s, e) : e \in once}

\* group 1 of MONEY_RE from position i: [0-9]{1,3}(?:[,，][0-9]{3})+|[0-9]+
AmountEnds(s, i) ==
    UNION {Thousands(s, j) : j \in Ends(<< Rep(AsciiDigit, 1, 3) >>, 1, s, i)}
        \cup Ends(<< AtLeast(AsciiDigit, 1) >>, 1, s, i)

\* ...\s*(円)?$ : the ends of group 1 from which the rest of s matches.  s
\* does not end in a newline (it is stripped), so $ is the end of s.
MoneyEnds(s, i) ==
    {e \in AmountEnds(s, i) :
        (Len(s) + 1) \in Ends(<< AtLeast(Whitespace, 0), Opt({20870}) >>, 1, s, e)}

\* MONEY_RE.search(s): the leftmost match; what follows group 1 leaves one
\* end for it
MONEY_RE_search(s) ==
    LET starts == {i \in 1..Len(s) : MoneyEnds(s, i) # {}}
    IN  IF starts = {} THEN [found |-> FALSE, start |-> 0, group1 |-> <<>>]
        ELSE LET i == Least(starts)
             IN  [found |-> TRUE, start |-> i,
                  group1 |-> SubSeq(s, i, Greatest(MoneyEnds(s, i)) - 1)]

\* the mutant of MONEY_RE_sub: the amount is left in the text
MONEY_RE_sub_nothing(s) == s

\* MONEY_RE.sub('', s): every match runs to the end of s, so only the
\* leftmost one is cut
MONEY_RE_sub(s) ==
    LET m == MONEY_RE_search(s)
    IN  IF m.found THEN SubSeq(s, 1, m.start - 1) ELSE s

(***************************************************************************)
(* The service's responses.  An annotation is [vertices, description], the *)
(* vertices being the y coordinates of its bounding polygon; the first     *)
(* annotation of a response is the whole text.  error is error.message,    *)
(* the empty string when the service reports none.                         *)
(***************************************************************************)
\* top edges of words; consecutive ones are 15, 1, 12 and 12 apart
TokenYs == {0, 15, 16, 28, 40}

TokenTexts ==
    { <<12362, 12395, 12366, 12426>>,  \* おにぎり
      <<50, 53, 48, 20870>>,           \* 250円
      <<21512, 35336>>,                \* 合計
      <<33590, 57, 56>> }              \* 茶98

\* a slightly tilted box of height 12 whose top edge is at y
Box(y) == <<y, y + 1, y + 13, y + 12>>

Words == {[vertices |-> Box(y), description |-> d] : y \in TokenYs, d \in TokenTexts}

\* the annotation of the whole text
FullText ==
    [vertices |-> Box(0),
     description |-> <<12362, 12395, 12366, 12426, 32, 50, 53, 48, 20870>>]

WordSeqs == UNION {[1..n -> Words] : n \in 0..MaxTokens}

\* "Bad image data"
ErrorMessages == { <<66, 97, 100, 32, 105, 109, 97, 103, 101, 32, 100, 97, 116, 97>> }

\* a response without an error, or one with an error and at most one word
Responses ==
    {[error |-> <<>>, text_annotations |-> a] :
        a \in {<<>>} \cup {<<FullText>> \o ws : ws \in WordSeqs}}
    \cup
    {[error |-> e, text_annotations |-> a] :
        e \in ErrorMessages,
        a \in {<<>>} \cup {<<FullText, w>> : w \in Words}}

\* top edges of the two printed lines of an uploaded receipt
FirstLineY == 0

SecondLineY == 30

\* the words of an uploaded receipt
LineTexts ==
    { <<12362, 12395, 12366, 12426>>,                      \* おにぎり
      <<12362, 12395, 12366, 12426, 65306>>,               \* おにぎり：
      <<12467, 12540, 12498, 12540>>,                      \* コーヒー
      <<50, 53, 48, 20870>>,                               \* 250円
      <<49, 44, 50, 48, 48>>,                              \* 1,200
      <<165, 51, 48, 48>>,                                 \* ¥300
      <<21512, 35336>>,                                    \* 合計
      <<12509, 12452, 12531, 12488>>,                      \* ポイント
      <<86, 73, 83, 65>>,                                  \* VISA
      <<42, 42, 42, 42>>,                                  \* ****
      <<84, 69, 76, 58, 48, 51, 45, 49, 50, 51, 52, 45, 53, 54, 55, 56>>,
                                                           \* TEL:03-1234-5678
      <<73, 68, 58, 65, 66, 67, 49, 50, 51, 52, 53>>,      \* ID:ABC12345
      <<12362, 12395, 12366, 12426, 50, 53, 48, 20870>>,   \* おにぎり250円
      <<33590, 57, 56>>,                                   \* 茶98
      <<65, 66, 51, 48, 48>>,                              \* AB300
      <<12497, 12531, 51, 48, 48, 48, 48, 48>>,            \* パン300000
      <<12497, 12531, 53, 48, 48, 48, 48, 48>>,            \* パン500000
      <<28040, 36027, 31246, 50, 48>> }                    \* 消費税20

\* the second line is one that is a single word
SecondLineTexts ==
    { <<12362, 12395, 12366, 12426, 50, 53, 48, 20870>>,   \* おにぎり250円
      <<12497, 12531, 51, 48, 48, 48, 48, 48>>,            \* パン300000
      <<12497, 12531, 53, 48, 48, 48, 48, 48>>,            \* パン500000
      <<33590, 57, 56>> }                                  \* 茶98

LineWords ==
    {[vertices |-> Box(FirstLineY), description |-> d] : d \in LineTexts}
        \cup {[vertices |-> Box(SecondLineY), description |-> d] : d \in SecondLineTexts}

\* what the service can answer to an upload: the words in any order, or an error
LineResponses ==
    {[error |-> <<>>, text_annotations |-> a] :
        a \in {<<>>} \cup {<<FullText>> \o ws :
                               ws \in UNION {[1..n -> LineWords] : n \in 0..MaxWords}}}
    \cup
    {[error |-> e, text_annotations |-> <<>>] : e \in ErrorMessages}

(***************************************************************************)
(* extract_lines                                                           *)
(***************************************************************************)
LineGap == 15

\* the mutant of TokensOf: the first annotation is a token like the others
TokensOfAll(annotations) ==
    [i \in 1..Len(annotations) |->
        [y |-> Least(Range(annotations[i].vertices)),
         tok |-> annotations[i].description]]

\* tokens of text_annotations[1:], y = min(v.y for v in a.bounding_poly.vertices)
TokensOf(annotations) ==
    [i \in 1..(Len(annotations) - 1) |->
        [y |-> Least(Range(annotations[i + 1].vertices)),
         tok |-> annotations[i + 1].description]]

\* the mutant of the sort: the annotation order is kept
AnnotationOrder(ts) == ts

RECURSIVE SortByY(_)
\* tokens.sort(key=lambda t: t[0]); the sort is stable
SortByY(ts) ==
    IF ts = <<>> THEN <<>>
    ELSE LET rest == SortByY(Front(ts))
             t    == Last(ts)
             k    == Cardinality({i \in 1..Len(rest) : rest[i].y <= t.y})
         IN  SubSeq(rest, 1, k) \o <<t>> \o SubSeq(rest, k + 1, Len(rest))

\* cur_y is the fraction a[1] / a[2].  On the y values of the model the
\* float comparison of the code and the exact one agree.
\* the mutant of Near: a token exactly 15 from the anchor does not join
NearBelowGap(y, a) == Abs(y * a[2] - a[1]) < LineGap * a[2]

\* abs(y - cur_y) <= 15
Near(y, a) == Abs(y * a[2] - a[1]) <= LineGap * a[2]

\* the mutant of the anchor: it follows the last token
LastTokenAnchor(a, y) == <<y, 1>>

\* 0.8 * cur_y + 0.2 * y
Smoothed(a, y) == <<4 * a[1] + y * a[2], 5 * a[2]>>

RECURSIVE GroupLoop(_, _, _, _)
\* the loop over the sorted tokens and the closing of the last buffer;
\* cur_y is <<>> for None
GroupLoop(tokens, groups, buf, cur_y) ==
    IF tokens = <<>>
    THEN IF buf # <<>> THEN Append(groups, buf) ELSE groups
    ELSE LET t == Head(tokens)
         IN  IF cur_y = <<>> \/ Near(t.y, cur_y)
             THEN GroupLoop(Tail(tokens), groups, Append(buf, t),
                            IF cur_y = <<>> THEN <<t.y, 1>> ELSE Smoothed(cur_y, t.y))
             ELSE GroupLoop(Tail(tokens), Append(groups, buf), <<t>>, <<t.y, 1>>)

RECURSIVE JoinTokens(_)
\* " ".join(tok for _, tok in g), toks the tok of each token of g
JoinTokens(toks) ==
    IF Len(toks) = 1 THEN toks[1]
    ELSE JoinTokens(Front(toks)) \o <<32>> \o Last(toks)

\* text.replace('¥', '').replace(',', ' ').strip()
CleanText(toks) ==
    Strip(Replace(Replace(JoinTokens(toks), 165, <<>>), 44, <<32>>), Whitespace)

\* the mutant of IsNoise: the noise vocabulary IGNORE_HARD is not looked at
IsNoiseByPatternOnly(text) ==
    \/ search(TEL_RE, text) \/ search(POINT_RE, text)
    \/ search(MEMBER_RE, text) \/ search(CARD_RE, text) \/ search(MASK_RE, text)

IsNoise(text) ==
    \/ search(TEL_RE, text) \/ search(POINT_RE, text)
    \/ \E k \in IGNORE_HARD : Contains(text, k)
    \/ search(MEMBER_RE, text) \/ search(CARD_RE, text) \/ search(MASK_RE, text)

\* the body of `for g in groups` as far as it depends on the text of g: the
\* raw_text, item and amount of the line appended for g, if one is
TextLine(toks) ==
    LET text == CleanText(toks)
        m    == MONEY_RE_search(text)
        name == Strip(MONEY_RE_sub(text), {32, 58, 65306, 45, 8211, 8212, 126, 12316, 9})
    IN  IF IsNoise(text) \/ ~m.found \/ name = <<>> THEN <<>>
        ELSE << [raw_text |-> text,
                 item     |-> name,
                 amount   |-> int(Replace(Replace(m.group1, 44, <<>>), 65292, <<>>))] >>

\* TextLine on the texts a group of the model can have; @@ has TLC hold the
\* function as a table, so that it is computed once
TextLines ==
    [toks \in UNION {[1..n -> TokenTexts] : n \in 1..MaxTokens} |-> TextLine(toks)] @@ <<>>

\* the mutant of LinesOf: the extent of a line is the y of the first token
LinesOfFirstToken(g) ==
    LET toks  == [i \in 1..Len(g) |-> g[i].tok]
        lines == IF toks \in DOMAIN TextLines THEN TextLines[toks] ELSE TextLine(toks)
    IN  [i \in 1..Len(lines) |->
            [raw_text   |-> lines[i].raw_text,
             item       |-> lines[i].item,
             amount     |-> lines[i].amount,
             confidence |-> <<9, 10>>,
             y_min      |-> g[1].y,
             y_max      |-> g[1].y]]

\* the body of `for g in groups`: the lines appended to out for g
LinesOf(g) ==
    LET toks  == [i \in 1..Len(g) |-> g[i].tok]
        lines == IF toks \in DOMAIN TextLines THEN TextLines[toks] ELSE TextLine(toks)
    IN  [i \in 1..Len(lines) |->
            [raw_text   |-> lines[i].raw_text,
             item       |-> lines[i].item,
             amount     |-> lines[i].amount,
             confidence |-> <<9, 10>>,
             y_min      |-> Least({t.y : t \in Range(g)}),
             y_max      |-> Greatest({t.y : t \in Range(g)})]]

RECURSIVE OutOf(_)
OutOf(groups) ==
    IF groups = <<>> THEN <<>> ELSE OutOf(Front(groups)) \o LinesOf(Last(groups))

\* no extract_lines call in progress
Idle ==
    [pc |-> "idle", requests |-> 0, resp |-> [error |-> <<>>, text_annotations |-> <<>>],
     tokens |-> <<>>, groups |-> <<>>, out |-> <<>>, raised |-> <<>>]

\* the mutant of the error check: the response is processed all the same
OnResponseIgnoringError(e, resp) ==
    LET tokens == SortByY(TokensOf(resp.text_annotations))
        groups == GroupLoop(tokens, <<>>, <<>>, <<>>)
    IN  [e EXCEPT !.pc = "returned", !.resp = resp, !.tokens = tokens,
                  !.groups = groups, !.out = OutOf(groups)]

\* extract_lines from the response on
OnResponse(e, resp) ==
    IF resp.error # <<>>
    THEN [e EXCEPT !.pc = "raised", !.resp = resp, !.raised = resp.error]
    ELSE IF resp.text_annotations = <<>>
    THEN [e EXCEPT !.pc = "returned", !.resp = resp]
    ELSE LET tokens == SortByY(TokensOf(resp.text_annotations))
             groups == GroupLoop(tokens, <<>>, <<>>, <<>>)
         IN  [e EXCEPT !.pc = "returned", !.resp = resp, !.tokens = tokens,
                       !.groups = groups, !.out = OutOf(groups)]

(***************************************************************************)
(* views.py: the coarse filter and ReceiptUploadView.form_valid            *)
(***************************************************************************)
\* the patterns of _SKIP_PATTERNS that are searched anywhere in the item
_SKIP_ANYWHERE ==
    { Lit(w) : w \in { <<23567, 35336>>,                  \* 小計
                       <<21512, 35336>>,                  \* 合計
                       <<28040, 36027, 31246>>,           \* 消費税
                       <<20869, 31246>>,                  \* 内税
                       <<22806, 31246>>,                  \* 外税
                       <<38936, 21454>>,                  \* 領収
                       <<12362, 20250, 35336>>,           \* お会計
                       <<20250, 35336>>,                  \* 会計
                       <<25285, 24403>>,                  \* 担当
                       <<12524, 12472>>,                  \* レジ
                       <<30058, 21495>>,                  \* 番号
                       <<78, 111>>,                       \* No\.?
                       <<26377, 21177, 26399, 38480>>,    \* 有効期限
                       <<84, 69, 76>>,                    \* TEL
                       <<38651, 35441>>,                  \* 電話
                       <<65422, 65439, 65394, 65437, 65412>>,     \* ﾎﾟｲﾝﾄ
                       <<12509, 12452, 12531, 12488>>,            \* ポイント
                       <<100, 12509, 12452, 12531, 12488>>,       \* dポイント
                       <<27005, 22825, 12509, 12452, 12531, 12488>> } }  \* 楽天ポイント
    \cup { << One({35336}), AtLeast({32, 12288}, 0), One({23567}) >>,   \* 計[ 　]*小
           << One({84}), Opt({45}) >> \o Lit(<<80, 79, 73, 78, 84>>) }   \* T-?POINT

\* the patterns of _SKIP_PATTERNS anchored at both ends:
\* ^\s*[A-Z]{1,2}\s*$ and ^\s*\d{6,}\s*$
_SKIP_WHOLE ==
    { << AtLeast(Whitespace, 0), Rep(65..90, 1, 2), AtLeast(Whitespace, 0) >>,
      << AtLeast(Whitespace, 0), AtLeast(UnicodeDigit, 6), AtLeast(Whitespace, 0) >> }

\* regex.search(s) for a regex of the form ^...$ : $ is the end of s or the
\* place before a newline that ends s
whole(regex, s) ==
    \E pat \in regex :
        LET ends == Ends(pat, 1, s, 1)
        IN  \/ (Len(s) + 1) \in ends
            \/ s # <<>> /\ Last(s) = 10 /\ Len(s) \in ends

\* any(rx.search(item) for rx in _SKIP_RE)
_SKIP_RE(item) == search(_SKIP_ANYWHERE, item) \/ whole(_SKIP_WHOLE, item)

\* the mutant of _drop_noise: no ceiling on the amount
_drop_noise_any_amount(item, amount) ==
    \/ item = <<>> \/ Len(Strip(item, Whitespace)) < 2
    \/ _SKIP_RE(item)

\* _drop_noise(item, amount); amount is an int at its one call
_drop_noise(item, amount) ==
    \/ item = <<>> \/ Len(Strip(item, Whitespace)) < 2
    \/ _SKIP_RE(item)
    \/ amount > 300000

\* the body of `for r in raw_rows`: the rows appended to initial for r, for
\* each value guess_category(item=item) can return
RowsOf(r, rs, cats, first, cfg) ==
    LET item == Strip(r.item, Whitespace)
        amt  == r.amount
    IN  IF _drop_noise(item, amt) THEN {<<>>}
        ELSE { << [item |-> item, amount |-> amt, category |-> o.result,
                   raw_text |-> r.raw_text] >> :
                 o \in guess_category(item, <<>>, None, rs, cats, first, cfg) }

RECURSIVE InitialOf(_, _, _, _, _)
\* the values of initial after the loop over raw_rows
InitialOf(raw_rows, rs, cats, first, cfg) ==
    IF raw_rows = <<>> THEN {<<>>}
    ELSE { before \o rows :
             before \in InitialOf(Front(raw_rows), rs, cats, first, cfg),
             rows \in RowsOf(Last(raw_rows), rs, cats, first, cfg) }

\* form.cleaned_data["date"].isoformat()
Dates == { <<50, 48, 50, 53, 45, 48, 55, 45, 48, 49>> }    \* 2025-07-01

\* a session key that is not set is <<>>, one that is set is <<value>>
EmptySession == [ocr_image_url |-> <<>>, ocr_date |-> <<>>, ocr_initial |-> <<>>]

\* no upload being handled, nothing in the session
NoUpload == [pc |-> "idle", session |-> EmptySession]

(***************************************************************************)
(* The stores and the calls.  call holds what the last call returned until *)
(* the caller is done with it or the stores are written.                   *)
(***************************************************************************)
NoCall ==
    [made |-> FALSE, item |-> <<>>, memo |-> <<>>, user_choice |-> None,
     result |-> None, consulted |-> <<>>]

Returned(item, memo, user_choice, o) ==
    [made |-> TRUE, item |-> item, memo |-> memo, user_choice |-> user_choice,
     result |-> o.result, consulted |-> o.consulted]

\* a caller either starts from no pending result or repeats its call
MayCall(item, memo, user_choice) ==
    \/ ~call.made
    \/ call.item = item /\ call.memo = memo /\ call.user_choice = user_choice

\* an empty database; CATEGORY_AI is not set, so the default {"enabled": False}
InitResolver ==
    /\ categories = {}
    /\ heapFirst = {}
    /\ rules = <<>>
    /\ CATEGORY_AI = [enabled |-> FALSE, threshold |-> 65]
    /\ call = NoCall
    /\ provider = NoAnswer

\* admin: add a Category row.  Where the database stores it among the rows
\* of the same name is the database's choice.
AddCategory(c) ==
    /\ c \notin categories
    /\ categories' = categories \cup {c}
    /\ LET same == {d \in categories : d.name = c.name}
       IN  \/ heapFirst' = (heapFirst \ {d.id : d \in same}) \cup {c.id}
           \/ same # {} /\ heapFirst' = heapFirst
    /\ call' = NoCall
    /\ UNCHANGED <<rules, CATEGORY_AI, el, up, image, provider, sideVars>>

\* admin: delete a Category row; CategoryRule.category is on_delete=CASCADE
DeleteCategory(c) ==
    /\ c \in categories
    /\ categories' = categories \ {c}
    /\ LET same == {d \in categories \ {c} : d.name = c.name}
       IN  IF c.id \in heapFirst /\ same # {}
           THEN \E d \in same : heapFirst' = (heapFirst \ {c.id}) \cup {d.id}
           ELSE heapFirst' = heapFirst \ {c.id}
    /\ rules' = SelectSeq(rules, LAMBDA r : r.category # c.id)
    /\ call' = NoCall
    /\ UNCHANGED <<CATEGORY_AI, el, up, image, provider, sideVars>>

\* admin: add a CategoryRule row; keyword is unique
AddRule(kw, c) ==
    /\ Len(rules) < MaxRules
    /\ c \in categories
    /\ \A i \in 1..Len(rules) : rules[i].keyword # kw
    /\ rules' = Append(rules, [keyword |-> kw, category |-> c.id])
    /\ call' = NoCall
    /\ UNCHANGED <<categories, heapFirst, CATEGORY_AI, el, up, image, provider, sideVars>>

\* admin: delete a CategoryRule row
DeleteRule(i) ==
    /\ i \in 1..Len(rules)
    /\ rules' = RemoveAt(rules, i)
    /\ call' = NoCall
    /\ UNCHANGED <<categories, heapFirst, CATEGORY_AI, el, up, image, provider, sideVars>>

\* guess_category(item, memo, user_choice) called directly
GuessCategory(item, memo, user_choice) ==
    /\ MayCall(item, memo, user_choice)
    /\ \E o \in guess_category(item, memo, user_choice, rules, categories,
                               heapFirst, CATEGORY_AI) :
          call' = Returned(item, memo, user_choice, o)
    /\ categories' = CategoriesAfterGuess(item, memo, user_choice, rules, categories)
    /\ UNCHANGED <<heapFirst, rules, CATEGORY_AI, el, up, image, provider, sideVars>>

\* POST guess_category_api: Category.objects.get(pk=cat_id), and a cat_id
\* that names no row (DoesNotExist) is no choice
ApiChoice(cat_id, cats) ==
    IF cat_id # None /\ (\E c \in cats : c.id = cat_id) THEN cat_id ELSE None

GuessCategoryApi(item, memo, cat_id) ==
    /\ MayCall(item, memo, ApiChoice(cat_id, categories))
    /\ \E o \in guess_category(item, memo, ApiChoice(cat_id, categories),
                               rules, categories, heapFirst, CATEGORY_AI) :
          call' = Returned(item, memo, ApiChoice(cat_id, categories), o)
    /\ categories' = CategoriesAfterGuess(item, memo, ApiChoice(cat_id, categories),
                                          rules, categories)
    /\ UNCHANGED <<heapFirst, rules, CATEGORY_AI, el, up, image, provider, sideVars>>

\* the caller is done with the result
Return ==
    /\ call.made
    /\ call' = NoCall
    /\ UNCHANGED <<categories, heapFirst, rules, CATEGORY_AI, el, up, image, provider, sideVars>>

NextResolver ==
    \/ \E c \in CategoryUniverse : AddCategory(c)
    \/ \E c \in CategoryUniverse : DeleteCategory(c)
    \/ \E kw \in Keywords, c \in CategoryUniverse : AddRule(kw, c)
    \/ \E i \in 1..MaxRules : DeleteRule(i)
    \/ \E in \in Inputs, uc \in CategoryIds \cup {None} :
           GuessCategory(in[1], in[2], uc)
    \/ \E in \in Inputs, cid \in CategoryIds \cup {None} :
           GuessCategoryApi(in[1], in[2], cid)
    \/ Return

(***************************************************************************)
(* The extract_lines call                                                  *)
(***************************************************************************)
InitOcr == el = Idle

\* extract_lines up to client.document_text_detection(...): the request is sent
ExtractLinesRequest ==
    /\ el.pc = "idle"
    /\ el' = [el EXCEPT !.pc = "awaiting", !.requests = el.requests + 1]
    /\ UNCHANGED <<resolverVars, up, image, sideVars>>

\* the service answers and extract_lines runs to its return or its raise
ExtractLinesComplete ==
    /\ el.pc = "awaiting"
    /\ \E resp \in Responses : el' = OnResponse(el, resp)
    /\ UNCHANGED <<resolverVars, up, image, sideVars>>

\* the caller has the lines, or the exception has left the caller
ExtractLinesDone ==
    /\ el.pc \in {"returned", "raised"}
    /\ el' = Idle
    /\ UNCHANGED <<resolverVars, up, image, sideVars>>

NextOcr ==
    \/ ExtractLinesRequest
    \/ ExtractLinesComplete
    \/ ExtractLinesDone

(***************************************************************************)
(* ocr_client.py: the image source and its preprocessing.  Bytes are       *)
(* sequences of small numbers.  A stream has a cursor pos, the number of   *)
(* bytes before it; a stream that is not seekable raises on seek and tell. *)
(***************************************************************************)
\* the byte values of the model
ByteValues == {1, 2}

\* the contents of an image source
Contents == UNION {[1..n -> ByteValues] : n \in 0..MaxBytes}

\* the sources extract_lines accepts: a bytes-like buffer, a Django
\* UploadedFile, another file-like object, a path; "missing" is a path that
\* names no file
Sources ==
    {[kind |-> k, seekable |-> TRUE, data |-> d, pos |-> 0] :
        k \in {"bytes", "path"}, d \in Contents}
    \cup
    {[kind |-> "missing", seekable |-> TRUE, data |-> <<>>, pos |-> 0]}
    \cup
    UNION {{[kind |-> k, seekable |-> s, data |-> d, pos |-> p] : p \in 0..Len(d)} :
              k \in {"UploadedFile", "file"}, s \in BOOLEAN, d \in Contents}

\* image.read(): the bytes from the cursor on
ReadFrom(data, pos) == SubSeq(data, pos + 1, Len(data))

\* _to_bytes(image): the bytes returned and where the cursor is left, or the
\* exception of read_bytes()
_to_bytes(src) ==
    IF src.kind = "bytes" THEN [raised |-> FALSE, raw |-> src.data, pos |-> src.pos]
    ELSE IF src.kind = "UploadedFile"
    THEN \* seek(0), any exception passed over; read()
         [raised |-> FALSE,
          raw |-> ReadFrom(src.data, IF src.seekable THEN 0 ELSE src.pos),
          pos |-> Len(src.data)]
    ELSE IF src.kind = "file"
    THEN \* pos = tell(), or None on an exception; read(); seek(pos) if pos is not None
         [raised |-> FALSE,
          raw |-> ReadFrom(src.data, src.pos),
          pos |-> IF src.seekable THEN src.pos ELSE Len(src.data)]
    ELSE \* Path(image).read_bytes()
         [raised |-> src.kind = "missing", raw |-> src.data, pos |-> src.pos]

\* the PNG that cv2.imencode makes of the thresholded image decoded from raw:
\* the PNG signature stands for the encoding
Png(raw) == <<137, 80, 78, 71>> \o raw

\* the mutant of _preprocess: an image that cannot be decoded is an error
_preprocess_strict(read) ==
    { [raised |-> TRUE, decoded |-> FALSE, ok |-> FALSE, content |-> <<>>] }
    \cup
    IF read.raised \/ read.raw = <<>> THEN {}
    ELSE { [raised |-> FALSE, decoded |-> TRUE, ok |-> TRUE, content |-> Png(read.raw)] }

\* _preprocess once raw = _to_bytes(image) is done: what it can return.
\* cv2.imdecode returns None for a buffer that is too short or holds no valid
\* image, cv2.imencode returns ok = False when it cannot encode; which of
\* them happens for given bytes is the library's answer.  No image is
\* decoded from no bytes.  The exception of _to_bytes leaves _preprocess.
_preprocess(read) ==
    IF read.raised
    THEN { [raised |-> TRUE, decoded |-> FALSE, ok |-> FALSE, content |-> <<>>] }
    ELSE { [raised |-> FALSE, decoded |-> FALSE, ok |-> FALSE, content |-> read.raw] }
         \cup
         IF read.raw = <<>> THEN {}
         ELSE { [raised |-> FALSE, decoded |-> TRUE, ok |-> TRUE, content |-> Png(read.raw)],
                [raised |-> FALSE, decoded |-> TRUE, ok |-> FALSE, content |-> read.raw] }

\* the service's answers to the images of the model: no text, or an error
ImageResponses ==
    {[error |-> e, text_annotations |-> <<>>] : e \in {<<>>} \cup ErrorMessages}

(***************************************************************************)
(* The upload of a receipt                                                 *)
(***************************************************************************)
InitUpload == up = NoUpload

\* no image source at hand
NoImage ==
    [pc |-> "none", kind |-> "none", seekable |-> FALSE, data |-> <<>>, pos |-> 0,
     raw |-> <<>>, decoded |-> FALSE, ok |-> FALSE, content |-> <<>>]

InitImage == image = NoImage

\* form_valid up to the request of extract_lines(data): the image is stored
\* for the preview, and its url and the date are put in the session
FormValidStart(d) ==
    /\ up.pc \in {"idle", "failed"}
    /\ el.pc = "idle"
    /\ up' = [pc |-> "ocr",
              session |-> [up.session EXCEPT !.ocr_image_url = <<"tmp_path">>,
                                             !.ocr_date = <<d>>]]
    /\ el' = [el EXCEPT !.pc = "awaiting", !.requests = el.requests + 1]
    /\ UNCHANGED <<resolverVars, image, sideVars>>

\* the service answers; extract_lines returns and form_valid filters the
\* rows into session["ocr_initial"], or extract_lines raises and the
\* exception leaves form_valid
FormValidComplete ==
    /\ up.pc = "ocr"
    /\ el.pc = "awaiting"
    /\ \E resp \in LineResponses :
           /\ el' = OnResponse(el, resp)
           /\ IF el'.pc = "raised"
              THEN up' = [up EXCEPT !.pc = "failed"]
              ELSE \E initial \in InitialOf(el'.out, rules, categories, heapFirst,
                                             CATEGORY_AI) :
                      up' = [pc |-> "review",
                             session |-> [up.session EXCEPT !.ocr_initial = <<initial>>]]
    /\ UNCHANGED <<resolverVars, image, sideVars>>

\* ReceiptReviewView.form_valid, a request after the upload's: the lines are
\* registered and the three keys are popped from the session
ReceiptReview ==
    /\ up.pc = "review"
    /\ el.pc = "idle"
    /\ up' = NoUpload
    /\ UNCHANGED <<resolverVars, el, image, sideVars>>

NextUpload ==
    \/ \E d \in Dates : FormValidStart(d)
    \/ FormValidComplete
    \/ ExtractLinesDone
    \/ ReceiptReview

\* a caller has an image source at hand
OpenImage(src) ==
    /\ image.pc = "none"
    /\ el.pc = "idle"
    /\ image' = [NoImage EXCEPT !.pc = "open", !.kind = src.kind,
                                !.seekable = src.seekable, !.data = src.data,
                                !.pos = src.pos]
    /\ UNCHANGED <<resolverVars, el, up, sideVars>>

\* extract_lines(image) up to client.document_text_detection(...):
\* _preprocess reads the source and makes the content, and the request is
\* sent with it; or _preprocess raises
ExtractLinesImage ==
    /\ image.pc = "open"
    /\ el.pc = "idle"
    /\ LET read == _to_bytes(image)
       IN  \E p \in _preprocess(read) :
              /\ image' = [image EXCEPT !.pc = IF p.raised THEN "raised" ELSE "sent",
                                         !.pos = read.pos, !.raw = read.raw,
                                         !.decoded = p.decoded, !.ok = p.ok,
                                         !.content = p.content]
              /\ el' = IF p.raised THEN el
                       ELSE [el EXCEPT !.pc = "awaiting", !.requests = el.requests + 1]
    /\ UNCHANGED <<resolverVars, up, sideVars>>

\* the service answers and extract_lines runs to its return or its raise
ImageAnswered ==
    /\ image.pc = "sent"
    /\ el.pc = "awaiting"
    /\ \E resp \in ImageResponses : el' = OnResponse(el, resp)
    /\ UNCHANGED <<resolverVars, up, image, sideVars>>

\* the call is over and the caller lets go of the source
ImageDone ==
    /\ \/ image.pc = "sent" /\ el.pc \in {"returned", "raised"}
       \/ image.pc = "raised"
    /\ image' = NoImage
    /\ el' = Idle
    /\ UNCHANGED <<resolverVars, up, sideVars>>

NextImage ==
    \/ \E src \in Sources : OpenImage(src)
    \/ ExtractLinesImage
    \/ ImageAnswered
    \/ ImageDone

\* no parse_receipt call
NoParse == [pc |-> "idle", results |-> <<>>]

\* the browser sessions that send requests
SessionIds == {1, 2}

\* no ExpenseForm bound
NoForm ==
    [pc |-> "none", instance |-> None, item |-> <<>>, amount |-> 0, category |-> None,
     cleaned |-> <<>>]

\* nothing but the resolver, extract_lines, the upload view and the image
\* source is in use
InitSide ==
    /\ pr = NoParse
    /\ uploads = <<>>
    /\ sessions = [sid \in SessionIds |-> EmptySession]
    /\ form = NoForm
    /\ expenses = <<>>

Init == InitResolver /\ InitOcr /\ InitUpload /\ InitImage /\ InitSide

SpecImage == Init /\ [][NextImage]_vars

(***************************************************************************)
(* guess_category where settings.CATEGORY_AI is set                        *)
(***************************************************************************)
\* the values of settings.CATEGORY_AI: enabled or not, with the threshold
\* left at its default 0.65 or set to 0.80
Configs == {[enabled |-> e, threshold |-> t] : e \in BOOLEAN, t \in {65, 80}}

\* what the remote classifier answers to a text when asked: nothing, or a
\* label (食費, or 雑費 which names no category) with a score
Answers ==
    {NoAnswer} \cup
    {[answered |-> TRUE, label |-> l, score |-> sc] :
        l \in { <<39135, 36027>>, <<38609, 36027>> }, sc \in {50, 65, 83}}

\* an empty database, under any of the settings and any classifier
InitCloud ==
    /\ categories = {}
    /\ heapFirst = {}
    /\ rules = <<>>
    /\ CATEGORY_AI \in Configs
    /\ call = NoCall
    /\ provider \in Answers
    /\ InitOcr /\ InitUpload /\ InitImage /\ InitSide

NextCloud ==
    \/ \E c \in CategoryUniverse : AddCategory(c)
    \/ \E c \in CategoryUniverse : DeleteCategory(c)
    \/ \E in \in Inputs, uc \in CategoryIds \cup {None} :
           GuessCategory(in[1], in[2], uc)
    \/ Return

SpecCloud == InitCloud /\ [][NextCloud]_vars

SpecUpload == Init /\ [][NextUpload]_vars

SpecResolver == Init /\ [][NextResolver]_vars

SpecOcr == Init /\ [][NextOcr]_vars

(***************************************************************************)
(* parse_receipt and guess_category over a database that holds rows        *)
(***************************************************************************)
\* databases the calls run against: [categories, heapFirst, rules]
Databases ==
    LET shokuhi1 == [id |-> 1, name |-> <<39135, 36027>>, household |-> 1]
        kotsu    == [id |-> 2, name |-> <<20132, 36890>>, household |-> 1]
        shokuhi3 == [id |-> 3, name |-> <<39135, 36027>>, household |-> 2]
        seven    == <<12475, 12502, 12531>>
        seven11  == <<12475, 12502, 12531, 12452, 12524, 12502, 12531>>
        atm      == <<65, 84, 77>>
    IN  { [categories |-> {}, heapFirst |-> {}, rules |-> <<>>],
          [categories |-> {shokuhi1, kotsu}, heapFirst |-> {1, 2},
           rules |-> << [keyword |-> seven, category |-> 1] >>],
          \* no 食費: the dictionary words of 食費 find no category
          [categories |-> {kotsu}, heapFirst |-> {2},
           rules |-> << [keyword |-> atm, category |-> 2] >>],
          [categories |-> {shokuhi1, kotsu, shokuhi3}, heapFirst |-> {3, 2},
           rules |-> << [keyword |-> atm, category |-> 2],
                        [keyword |-> seven11, category |-> 3] >>] }

\* the receipts of parse_receipt: the words of each, with the line they are on
ReceiptWords ==
    LET w(d, y) == [vertices |-> Box(y), description |-> d]
    IN  { <<>>,
          \* おにぎり 250円
          << w(<<12362, 12395, 12366, 12426>>, FirstLineY), w(<<50, 53, 48, 20870>>, FirstLineY) >>,
          \* セブン 250円 / 弁当 ¥300
          << w(<<12475, 12502, 12531>>, FirstLineY), w(<<50, 53, 48, 20870>>, FirstLineY),
             w(<<24321, 24403>>, SecondLineY), w(<<165, 51, 48, 48>>, SecondLineY) >>,
          \* 電車 250円 / 弁当 ¥300
          << w(<<38651, 36554>>, FirstLineY), w(<<50, 53, 48, 20870>>, FirstLineY),
             w(<<24321, 24403>>, SecondLineY), w(<<165, 51, 48, 48>>, SecondLineY) >> }

\* what the service answers to them, or an error
ReceiptResponses ==
    {[error |-> <<>>, text_annotations |-> <<FullText>> \o ws] : ws \in ReceiptWords}
    \cup
    {[error |-> <<>>, text_annotations |-> <<>>]}
    \cup
    {[error |-> e, text_annotations |-> <<>>] : e \in ErrorMessages}

RECURSIVE ResultsOf(_, _, _, _, _)
\* parse_receipt: the values of results after `for r in rows`, cat being
\* guess_category(item=r["item"])
ResultsOf(rows, rs, cats, first, cfg) ==
    IF rows = <<>> THEN {<<>>}
    ELSE { Append(before, [item |-> Last(rows).item, amount |-> Last(rows).amount,
                           category |-> o.result]) :
             before \in ResultsOf(Front(rows), rs, cats, first, cfg),
             o \in guess_category(Last(rows).item, <<>>, None, rs, cats, first, cfg) }

RECURSIVE CategoriesAfterRows(_, _, _)
\* the Category table after the guess_category calls of `for r in rows`
CategoriesAfterRows(rows, rs, cats) ==
    IF rows = <<>> THEN cats
    ELSE CategoriesAfterGuess(Last(rows).item, <<>>, None, rs,
                              CategoriesAfterRows(Front(rows), rs, cats))

\* a database with rows
InitCore ==
    /\ \E db \in Databases :
          /\ categories = db.categories
          /\ heapFirst = db.heapFirst
          /\ rules = db.rules
    /\ CATEGORY_AI = [enabled |-> FALSE, threshold |-> 65]
    /\ call = NoCall
    /\ provider = NoAnswer
    /\ InitOcr /\ InitUpload /\ InitImage /\ InitSide

\* parse_receipt(image_file) up to the request extract_lines sends
ParseReceiptRequest ==
    /\ pr.pc = "idle"
    /\ el.pc = "idle"
    /\ pr' = [pr EXCEPT !.pc = "extracting"]
    /\ el' = [el EXCEPT !.pc = "awaiting", !.requests = el.requests + 1]
    /\ UNCHANGED <<categories, heapFirst, rules, CATEGORY_AI, call, provider, up, image,
                   uploads, sessions, form, expenses>>

\* the service answers: extract_lines returns and parse_receipt guesses the
\* category of every row, or extract_lines raises and the exception leaves
\* parse_receipt
ParseReceiptComplete ==
    /\ pr.pc = "extracting"
    /\ el.pc = "awaiting"
    /\ \E resp \in ReceiptResponses :
          /\ el' = OnResponse(el, resp)
          /\ IF el'.pc = "raised"
             THEN pr' = [pc |-> "raised", results |-> <<>>] /\ categories' = categories
             ELSE /\ \E results \in ResultsOf(el'.out, rules, categories, heapFirst,
                                              CATEGORY_AI) :
                        pr' = [pc |-> "returned", results |-> results]
                  /\ categories' = CategoriesAfterRows(el'.out, rules, categories)
    /\ UNCHANGED <<heapFirst, rules, CATEGORY_AI, call, provider, up, image,
                   uploads, sessions, form, expenses>>

\* the caller has the results, or the exception
ParseReceiptDone ==
    /\ pr.pc \in {"returned", "raised"}
    /\ pr' = NoParse
    /\ el' = Idle
    /\ UNCHANGED <<categories, heapFirst, rules, CATEGORY_AI, call, provider, up, image,
                   uploads, sessions, form, expenses>>

NextCore ==
    \/ \E in \in Inputs, uc \in CategoryIds \cup {None} :
           GuessCategory(in[1], in[2], ApiChoice(uc, categories))
    \/ Return
    \/ ParseReceiptRequest
    \/ ParseReceiptComplete
    \/ ParseReceiptDone

SpecCore == InitCore /\ [][NextCore]_vars

(***************************************************************************)
(* Receipt uploads served at the same time.  Each request runs form_valid  *)
(* in a frame of its own; uploads[u] holds the frame of request u.         *)
(***************************************************************************)
\* the mutant of LocalsOf: tokens, groups, buf and out are module-level and
\* every call works on the same ones
ModuleLevelLocals(u, ups) == ups[1].el

\* raw_rows and, inside extract_lines, tokens, groups, buf, cur_y and out are
\* local variables of the call that serves request u
LocalsOf(u, ups) == ups[u].el

\* request u of browser session sid: form_valid up to the request of
\* extract_lines(data)
UploadStart(sid, d) ==
    /\ Len(uploads) < MaxUploads
    /\ uploads' = Append(uploads,
                         [pc |-> "awaiting", sid |-> sid, date |-> d,
                          el |-> [Idle EXCEPT !.pc = "awaiting", !.requests = 1],
                          initial |-> <<>>])
    /\ UNCHANGED <<categories, heapFirst, rules, CATEGORY_AI, call, provider, el, up, image,
                   pr, sessions, form, expenses>>

\* the service answers request u: extract_lines returns raw_rows, or raises
\* and the exception leaves form_valid (the response is an error page, the
\* session is not saved)
UploadAnswered(u) ==
    /\ uploads[u].pc = "awaiting"
    /\ \E resp \in ReceiptResponses :
          LET e == OnResponse(LocalsOf(u, uploads), resp)
          IN  uploads' = [uploads EXCEPT ![u].el = e,
                                         ![u].pc = IF e.pc = "raised" THEN "failed"
                                                   ELSE "extracted"]
    /\ UNCHANGED <<categories, heapFirst, rules, CATEGORY_AI, call, provider, el, up, image,
                   pr, sessions, form, expenses>>

\* request u filters raw_rows into initial, guessing each row's category,
\* and redirects; its three keys are in the session when the response is
\* sent
UploadRedirect(u) ==
    /\ uploads[u].pc = "extracted"
    /\ \E initial \in InitialOf(LocalsOf(u, uploads).out, rules, categories, heapFirst,
                                CATEGORY_AI) :
          /\ uploads' = [uploads EXCEPT ![u].initial = initial, ![u].pc = "done"]
          /\ sessions' = [sessions EXCEPT ![uploads[u].sid] =
                             [ocr_image_url |-> <<"tmp_path">>,
                              ocr_date |-> <<uploads[u].date>>,
                              ocr_initial |-> <<initial>>]]
    /\ UNCHANGED <<categories, heapFirst, rules, CATEGORY_AI, call, provider, el, up, image,
                   pr, form, expenses>>

NextUploads ==
    \/ \E sid \in SessionIds, d \in Dates : UploadStart(sid, d)
    \/ \E u \in 1..Len(uploads) : UploadAnswered(u)
    \/ \E u \in 1..Len(uploads) : UploadRedirect(u)

\* the uploads run against a database that holds categories and rules
InitUploads == InitCore /\ categories # {}

SpecUploads == InitUploads /\ [][NextUploads]_vars

(***************************************************************************)
(* forms.py: ExpenseForm, as ExpenseCreateView and ExpenseUpdateView use   *)
(* it.  Expense has the fields date, item, amount and category and no      *)
(* memo, so memo is "" in clean and in save.                               *)
(***************************************************************************)
\* what is typed in the item field: "弁当", " 電車 ", "セブンイレブン ATM",
\* "ランダムな文字列", and a blank
FormItems ==
    { <<24321, 24403>>,
      <<32, 38651, 36554, 32>>,
      <<12475, 12502, 12531, 12452, 12524, 12502, 12531, 32, 65, 84, 77>>,
      <<12521, 12531, 12480, 12512, 12394, 25991, 23383, 21015>>,
      <<32>> }

\* what is typed in the amount field
FormAmounts == {0, 250}

\* the mutant of ExpenseForm_clean: the category is guessed whether or not
\* one was selected
ExpenseForm_clean_always_guesses(item, category, rs, cats, first, cfg) ==
    { IF o.result # None THEN o.result ELSE category :
        o \in guess_category(item, <<>>, None, rs, cats, first, cfg) }

\* ExpenseForm.clean: the values cleaned["category"] can have on return
ExpenseForm_clean(item, category, rs, cats, first, cfg) ==
    IF category # None THEN {category}
    ELSE { o.result : o \in guess_category(item, <<>>, None, rs, cats, first, cfg) }

\* ExpenseForm.save: the values obj.category can have at obj.save(), obj
\* being the instance the cleaned values were assigned to
ExpenseForm_save(item, category, rs, cats, first, cfg) ==
    IF category # None THEN {category}
    ELSE { o.result : o \in guess_category(item, <<>>, None, rs, cats, first, cfg) }

\* the fields validate: item is required and stripped (CharField), amount is
\* at least 1 (clean_amount), category is empty or the pk of a Category
\* (ModelChoiceField)
FieldsValid(item, amount, category, cats) ==
    /\ Strip(item, Whitespace) # <<>>
    /\ amount >= 1
    /\ category = None \/ \E c \in cats : c.id = category

\* a database with rows, no form bound, no expense stored
InitForm == InitCore /\ categories # {}

\* POST to ExpenseCreateView (instance None) or to ExpenseUpdateView
\* (instance the row edited): form.is_valid() runs the field validation and
\* clean()
ExpenseFormClean(instance, item, amount, category) ==
    /\ form.pc = "none"
    /\ IF instance = None THEN Len(expenses) < MaxExpenses
       ELSE instance \in 1..Len(expenses)
    /\ IF FieldsValid(item, amount, category, categories)
       THEN \E c \in ExpenseForm_clean(Strip(item, Whitespace), category, rules, categories,
                                       heapFirst, CATEGORY_AI) :
               form' = [pc |-> "cleaned", instance |-> instance, item |-> item,
                        amount |-> amount, category |-> category,
                        cleaned |-> << [item |-> Strip(item, Whitespace),
                                        amount |-> amount, category |-> c] >>]
       ELSE form' = [pc |-> "invalid", instance |-> instance, item |-> item,
                     amount |-> amount, category |-> category, cleaned |-> <<>>]
    /\ UNCHANGED <<categories, heapFirst, rules, CATEGORY_AI, call, provider, el, up, image,
                   pr, uploads, sessions, expenses>>

\* form_valid: form.save() inserts the row, or updates the row edited
ExpenseFormSave ==
    /\ form.pc = "cleaned"
    /\ LET obj == form.cleaned[1]
       IN  \E c \in ExpenseForm_save(obj.item, obj.category, rules, categories, heapFirst,
                                     CATEGORY_AI) :
               LET row == [item |-> obj.item, amount |-> obj.amount, category |-> c]
               IN  IF form.instance = None
                   THEN /\ expenses' = Append(expenses, row)
                        /\ form' = [form EXCEPT !.pc = "saved", !.instance = Len(expenses) + 1]
                   ELSE /\ expenses' = [expenses EXCEPT ![form.instance] = row]
                        /\ form' = [form EXCEPT !.pc = "saved"]
    /\ UNCHANGED <<categories, heapFirst, rules, CATEGORY_AI, call, provider, el, up, image,
                   pr, uploads, sessions>>

\* the response is sent: the redirect after a save, the form with its errors
\* otherwise
ExpenseFormDone ==
    /\ form.pc \in {"saved", "invalid"}
    /\ form' = NoForm
    /\ UNCHANGED <<categories, heapFirst, rules, CATEGORY_AI, call, provider, el, up, image,
                   pr, uploads, sessions, expenses>>

NextForm ==
    \/ \E instance \in {None} \cup 1..MaxExpenses, item \in FormItems,
          amount \in FormAmounts, category \in CategoryIds \cup {None} :
             ExpenseFormClean(instance, item, amount, category)
    \/ ExpenseFormSave
    \/ ExpenseFormDone

SpecForm == InitForm /\ [][NextForm]_vars

(***************************************************************************)
(* Properties of the resolver.  They are stated on the stored rows and on  *)
(* FALLBACK_KEYWORDS, not on the tiers' definitions above.                 *)
(***************************************************************************)
NormalizedText(item, memo) == _norm(item \o <<32>> \o memo)

\* the stored rules whose normalized keyword is a substring of the text
MatchingRules(item, memo, rs) ==
    {r \in Range(rs) : Contains(NormalizedText(item, memo), _norm(r.keyword))}

\* _norm of every dictionary word, by group and position
NormalizedWords ==
    [g \in DOMAIN FALLBACK_KEYWORDS |->
        [w \in DOMAIN FALLBACK_KEYWORDS[g].words |-> _norm(FALLBACK_KEYWORDS[g].words[w])]]

ScanPositions ==
    {p \in (DOMAIN FALLBACK_KEYWORDS) \X (1..9) : p[2] \in DOMAIN FALLBACK_KEYWORDS[p[1]].words}

\* <<group, word>> positions whose word is a substring of the text
AllHits(item, memo) ==
    LET text == NormalizedText(item, memo)
    IN  {p \in ScanPositions : Contains(text, NormalizedWords[p[1]][p[2]])}

\* the hits whose group name is the name of a stored Category
ExistingHits(item, memo, cats) ==
    {p \in AllHits(item, memo) : \E c \in cats : c.name = FALLBACK_KEYWORDS[p[1]].name}

ScanBefore(p, q) == p[1] < q[1] \/ (p[1] = q[1] /\ p[2] < q[2])

CallMatching == MatchingRules(call.item, call.memo, rules)
CallHits == ExistingHits(call.item, call.memo, categories)

\* C1: with a user choice X, guess_category returns exactly X whatever the
\* item, the memo and the stores hold, and consults no tier: not the rules,
\* not the dictionary, not the remote classifier.  The API passes the row
\* its category id names as that choice.
C1_ExplicitChoice ==
    /\ [](call.made /\ call.user_choice # None
            => call.result = call.user_choice /\ call.consulted = <<>>)
    /\ [][\A in \in Inputs, cid \in CategoryIds :
            (\E c \in categories : c.id = cid) /\ GuessCategoryApi(in[1], in[2], cid)
                => call'.result = cid /\ call'.consulted = <<>>]_vars

\* a choice was returned although a stored rule for another category matches
C1_Witness ==
    /\ call.made /\ call.user_choice # None /\ call.result = call.user_choice
    /\ \E r \in CallMatching : r.category # call.user_choice

\* C2: with no user choice and at least one matching rule, the result is the
\* category of the matching rule with the longest keyword, the smallest
\* keyword in code point order among equally long ones, whatever the order
\* the rules are stored in.
C2_LongestMatch ==
    call.made /\ call.user_choice = None /\ CallMatching # {}
        => LET matching == CallMatching
           IN  \E r \in matching :
                  /\ call.result = r.category
                  /\ \A q \in matching \ {r} :
                        \/ Len(r.keyword) > Len(q.keyword)
                        \/ Len(r.keyword) = Len(q.keyword) /\ LexLess(r.keyword, q.keyword)

\* two matching rules for different categories, the shorter stored first,
\* and the longer one's category returned
C2_Witness ==
    /\ call.made /\ call.user_choice = None /\ Len(rules) = 2
    /\ rules[1] \in CallMatching /\ rules[2] \in CallMatching
    /\ Len(rules[1].keyword) < Len(rules[2].keyword)
    /\ rules[1].category # rules[2].category
    /\ call.result = rules[2].category

\* C3: with no user choice the tiers are tried in order and the first match
\* wins: a matching rule decides even when a dictionary word of another,
\* existing category matches too; the dictionary is consulted only when no
\* rule matches, the remote classifier only when neither a rule nor a
\* dictionary word with an existing category matched.
C3_CascadeOrder ==
    call.made /\ call.user_choice = None
        => LET matching == CallMatching
               hits == CallHits
           IN  /\ "rules" \in Range(call.consulted)
               /\ matching # {} =>
                     /\ call.result \in {r.category : r \in matching}
                     /\ call.consulted = <<"rules">>
               /\ "dictionary" \in Range(call.consulted) <=> matching = {}
               /\ "cloud" \in Range(call.consulted) <=> matching = {} /\ hits = {}
               /\ matching = {} /\ hits # {} =>
                     \E p \in hits, c \in categories :
                         c.name = FALLBACK_KEYWORDS[p[1]].name /\ call.result = c.id

\* a rule decided while a dictionary word of another stored category matched
C3_Witness ==
    /\ call.made /\ call.user_choice = None /\ CallMatching # {}
    /\ \E p \in CallHits : \A c \in categories :
           c.name = FALLBACK_KEYWORDS[p[1]].name => c.id # call.result

\* C4: in the dictionary tier the groups are scanned in declared order and
\* the words of a group in declared order; the result is a stored Category
\* named by the group of the first word that is a substring of the text and
\* whose group name is the name of a stored Category; a hit whose category
\* is not stored is skipped; and no call creates a Category.
C4_DictionaryTier ==
    /\ [](call.made /\ "dictionary" \in Range(call.consulted) /\ CallHits # {}
            => \E p \in CallHits :
                  /\ \A q \in CallHits : q = p \/ ScanBefore(p, q)
                  /\ \E c \in categories :
                        c.name = FALLBACK_KEYWORDS[p[1]].name /\ call.result = c.id)
    /\ [][call'.made => categories' = categories]_vars

\* the first word that hit names a category that is not stored, and a later
\* word's category was returned
C4_Witness ==
    /\ call.made /\ "dictionary" \in Range(call.consulted) /\ call.result # None
    /\ \E p \in AllHits(call.item, call.memo) \ CallHits :
          \A q \in CallHits : ScanBefore(p, q)

\* C5: with no user choice and the remote classifier disabled, the result
\* is None exactly when no stored rule matches and no dictionary word with
\* a stored category matches; a result other than None is a matching rule's
\* category or a stored Category, never a default.
C5_NoneWhenNothingMatches ==
    call.made /\ call.user_choice = None /\ ~CATEGORY_AI.enabled
        => LET matching == CallMatching
           IN  /\ call.result = None <=> matching = {} /\ CallHits = {}
               /\ call.result # None =>
                     \/ call.result \in {r.category : r \in matching}
                     \/ \E c \in categories : c.id = call.result

\* None was returned although categories are stored
C5_Witness ==
    /\ call.made /\ call.user_choice = None /\ ~CATEGORY_AI.enabled
    /\ call.result = None /\ categories # {} /\ rules # <<>>

\* the rule tables that differ from rs in one keyword, replaced by a width
\* or case variant of it (same normalized form)
KeywordVariants(rs) ==
    {[rs EXCEPT ![i].keyword = kw] : i \in DOMAIN rs, kw \in Keywords} \cap
    {v \in [DOMAIN rs -> [keyword : Keywords, category : CategoryIds]] :
        /\ \A i \in DOMAIN rs : _norm(v[i].keyword) = _norm(rs[i].keyword)
        /\ \A i, j \in DOMAIN rs : i # j => v[i].keyword # v[j].keyword}

Results(outcomes) == {o.result : o \in outcomes}

\* C6: text, rule keywords and dictionary words are normalized before they
\* are compared, so that guess_category returns the same category for every
\* width or case variant of the item, of the memo or of a rule keyword.
C6_SameForVariants ==
    call.made /\ call.user_choice = None
        => /\ \A in \in Inputs :
                 _norm(in[1]) = _norm(call.item) /\ _norm(in[2]) = _norm(call.memo)
                     => call.result \in Results(guess_category(in[1], in[2], None, rules,
                                                   categories, heapFirst, CATEGORY_AI))
           /\ \A v \in KeywordVariants(rules) :
                 call.result \in Results(guess_category(call.item, call.memo, None, v,
                                             categories, heapFirst, CATEGORY_AI))

\* the part of C6 that the code keeps: variants of the item and of the memo
C6_ItemAndMemoVariants ==
    call.made /\ call.user_choice = None
        => \A in \in Inputs :
               _norm(in[1]) = _norm(call.item) /\ _norm(in[2]) = _norm(call.memo)
                   => call.result \in Results(guess_category(in[1], in[2], None, rules,
                                                 categories, heapFirst, CATEGORY_AI))

Finished == el.pc \in {"returned", "raised"}

Grouped == el.pc = "returned" /\ el.resp.text_annotations # <<>>

Ys(g) == [i \in 1..Len(g) |-> g[i].y]

RECURSIVE AnchorTimes(_)
\* the anchor after the tokens at ys have joined, times 5^(Len(ys) - 1):
\* a(1) = ys[1] and a(n) = 0.8 * a(n - 1) + 0.2 * ys[n]
AnchorTimes(ys) ==
    IF Len(ys) = 1 THEN ys[1]
    ELSE 4 * AnchorTimes(Front(ys)) + 5 ^ (Len(ys) - 2) * Last(ys)

\* |y - anchor| <= 15 for the anchor after ys
WithinGap(y, ys) ==
    Abs(y * 5 ^ (Len(ys) - 1) - AnchorTimes(ys)) <= 15 * 5 ^ (Len(ys) - 1)

RECURSIVE Flatten(_)
Flatten(gs) == IF gs = <<>> THEN <<>> ELSE Flatten(Front(gs)) \o Last(gs)

\* the group of the token at position p of the sorted tokens
GroupOfPosition(p) ==
    Least({g \in 1..Len(el.groups) : p <= Len(Flatten(SubSeq(el.groups, 1, g)))})

\* the position of the first token of group g in the sorted tokens
StartOf(g) == Len(Flatten(SubSeq(el.groups, 1, g - 1))) + 1

\* every token that joined was within 15 of the anchor of the tokens before
\* it in its group, and the first token of a later group was not within 15
\* of the anchor of the whole group before it
JoinRule ==
    Grouped =>
        \A g \in 1..Len(el.groups) :
            /\ \A k \in 2..Len(el.groups[g]) :
                   WithinGap(el.groups[g][k].y, Ys(SubSeq(el.groups[g], 1, k - 1)))
            /\ g > 1 => ~WithinGap(el.groups[g][1].y, Ys(el.groups[g - 1]))

ResponseTokens ==
    [i \in 1..(Len(el.resp.text_annotations) - 1) |->
        LET a == el.resp.text_annotations[i + 1]
        IN  [y |-> Least({a.vertices[v] : v \in DOMAIN a.vertices}),
             tok |-> a.description]]

Count(x, s) == Cardinality({i \in DOMAIN s : s[i] = x})

\* C9: the groups are non-empty contiguous runs of the tokens of the
\* response sorted by y, every token is in exactly one group, each group
\* gives at most one output line, in the order of the groups, and the y_max
\* of an output line is at most the y_min of every later one.
C9_OrderPreservingPartition ==
    Grouped =>
        /\ Len(el.tokens) = Len(ResponseTokens)
        /\ \A t \in Range(ResponseTokens) : Count(t, el.tokens) = Count(t, ResponseTokens)
        /\ \A i \in 1..(Len(el.tokens) - 1) : el.tokens[i].y <= el.tokens[i + 1].y
        /\ \A g \in 1..Len(el.groups) : el.groups[g] # <<>>
        /\ Flatten(el.groups) = el.tokens
        /\ \E f \in [1..Len(el.out) -> 1..Len(el.groups)] :
               /\ \A i, j \in 1..Len(el.out) : i < j => f[i] < f[j]
               /\ \A i \in 1..Len(el.out) :
                      /\ el.out[i].y_min = Least(Range(Ys(el.groups[f[i]])))
                      /\ el.out[i].y_max = Greatest(Range(Ys(el.groups[f[i]])))
        /\ \A i, j \in 1..Len(el.out) : i < j => el.out[i].y_max <= el.out[j].y_min

\* a response whose words were not in y order gave three groups, and two of
\* them gave a line
C9_Witness ==
    /\ Grouped
    /\ el.tokens # ResponseTokens
    /\ Len(el.groups) = 3
    /\ Len(el.out) = 2

\* C10: a response that carries an error message makes extract_lines raise
\* with that message and return no lines; a call sends one request to the
\* service, whether it returns or raises, and a call that raised sends no
\* further request.
C10_ServiceErrorIsTerminal ==
    /\ [](/\ el.requests <= 1
          /\ Finished => el.requests = 1
          /\ Finished => (el.resp.error # <<>> <=> el.pc = "raised")
          /\ el.pc = "raised" => el.raised = el.resp.error /\ el.out = <<>>
          /\ el.pc = "returned" => el.raised = <<>>)
    /\ [][Finished => el'.pc = "idle" /\ el'.requests = 0]_vars

\* the response carried an error and words, and the call raised
C10_Witness ==
    /\ el.pc = "raised"
    /\ el.raised # <<>>
    /\ Len(el.resp.text_annotations) > 1

\* C11: when the service reports no error and the response has no
\* annotation, or only the first one (the whole text), extract_lines returns
\* an empty list and does not raise; the first annotation is never a token,
\* so a line is made of the words only.
C11_NoTextIsNormal ==
    /\ Finished /\ el.resp.error = <<>> /\ Len(el.resp.text_annotations) <= 1
           => el.pc = "returned" /\ el.out = <<>>
    /\ Grouped =>
           /\ Len(el.tokens) = Len(el.resp.text_annotations) - 1
           /\ \A t \in Range(el.tokens) :
                  /\ t.tok # el.resp.text_annotations[1].description
                  /\ \E i \in 2..Len(el.resp.text_annotations) :
                         t.tok = el.resp.text_annotations[i].description
           /\ \A l \in Range(el.out) : \E g \in Range(el.groups) :
                  /\ l.y_min = Least(Range(Ys(g)))
                  /\ l.y_max = Greatest(Range(Ys(g)))

\* the response held the whole text alone, a text that would parse as a
\* line, and the call returned no line
C11_Witness ==
    /\ el.pc = "returned"
    /\ Len(el.resp.text_annotations) = 1
    /\ TextLine(<<el.resp.text_annotations[1].description>>) # <<>>
    /\ el.out = <<>>

\* the tok of each token of a group
Toks(g) == [i \in 1..Len(g) |-> g[i].tok]

\* the lines of out that were made from group g
LinesFrom(g) ==
    {l \in Range(el.out) :
        l.y_min = Least(Range(Ys(g))) /\ l.y_max = Greatest(Range(Ys(g)))}

\* the hard-noise signals, on the cleaned text of a group
HardNoise(text) ==
    \/ search(TEL_RE, text)                          \* a phone number
    \/ search(POINT_RE, text)                        \* loyalty points
    \/ search(MEMBER_RE, text)                       \* a membership id
    \/ search(CARD_RE, text)                         \* a card brand
    \/ search(MASK_RE, text)                         \* four or more * or #
    \/ \E k \in IGNORE_HARD : Contains(text, k)      \* a term of the noise vocabulary

\* C12: a group whose cleaned text shows a hard-noise signal (a phone number,
\* loyalty points, a membership id, a card brand, four or more asterisks or
\* hashes, a term of the noise vocabulary) gives no line, also when the text
\* ends in an amount.
C12_NoiseGivesNoLine ==
    Grouped =>
        \A g \in Range(el.groups) :
            HardNoise(CleanText(Toks(g))) => LinesFrom(g) = {}

\* 合計 1,200 : noise that ends in an amount, and nothing is returned
C12_Witness ==
    /\ el.pc = "returned"
    /\ \E g \in Range(el.groups) :
          /\ Toks(g) = << <<21512, 35336>>, <<49, 44, 50, 48, 48>> >>
          /\ MONEY_RE_search(CleanText(Toks(g))).found
          /\ Strip(MONEY_RE_sub(CleanText(Toks(g))), Whitespace) # <<>>
    /\ el.out = <<>>

\* the separator characters trimmed from an item: space, colons, dashes,
\* tildes and tab
Separators == {32, 58, 65306, 45, 8211, 8212, 126, 12316, 9}

\* a text read as a label followed by an integer and an optional 円: the
\* digits are the longest run of ASCII digits before the 円 and the
\* whitespace that may end the text, the label is what precedes them
TrailingInteger(text) ==
    LET n      == Len(text)
        yen    == IF n > 0 /\ text[n] = 20870 THEN 1 ELSE 0
        body   == {i \in 1..(n - yen) : text[i] \notin Whitespace}
        last   == IF body = {} THEN 0 ELSE Greatest(body)
        nondig == {i \in 1..last : text[i] \notin AsciiDigit}
        first  == IF nondig = {} THEN 1 ELSE Greatest(nondig) + 1
    IN  [digits |-> SubSeq(text, first, last), label |-> SubSeq(text, 1, first - 1)]

\* the items and amounts of the lines of out that were made from group g
ItemsFrom(g) == {[item |-> l.item, amount |-> l.amount] : l \in LinesFrom(g)}

\* C13: a group that is not noise and whose text is a label followed by an
\* integer, with or without 円, gives one line: its amount is the integer and
\* its item is the label with the separators trimmed from both ends; a group
\* without a trailing integer, or with nothing left of the label, gives none.
\* The text is the cleaned one, which holds no comma.
C13_AmountAndItem ==
    Grouped =>
        \A g \in Range(el.groups) :
            LET text == CleanText(Toks(g))
                t    == TrailingInteger(text)
                item == Strip(t.label, Separators)
            IN  ~HardNoise(text) /\ ~Contains(text, <<65292>>) =>
                    IF t.digits # <<>> /\ item # <<>>
                    THEN ItemsFrom(g) = {[item |-> item, amount |-> int(t.digits)]}
                    ELSE ItemsFrom(g) = {}

\* おにぎり： 250円 gives (おにぎり, 250)
C13_Witness ==
    /\ el.pc = "returned"
    /\ Len(el.groups) = 1
    /\ Toks(el.groups[1]) = << <<12362, 12395, 12366, 12426, 65306>>, <<50, 53, 48, 20870>> >>
    /\ Len(el.out) = 1
    /\ el.out[1].item = <<12362, 12395, 12366, 12426>>
    /\ el.out[1].amount = 250

\* a text read as a label followed by a comma-grouped integer and an
\* optional 円: run is the longest run of ASCII digits and commas before the
\* 円 and the whitespace that may end the text
TrailingGrouped(text) ==
    LET n     == Len(text)
        yen   == IF n > 0 /\ text[n] = 20870 THEN 1 ELSE 0
        body  == {i \in 1..(n - yen) : text[i] \notin Whitespace}
        last  == IF body = {} THEN 0 ELSE Greatest(body)
        other == {i \in 1..last : text[i] \notin AsciiDigit \cup {44}}
        first == IF other = {} THEN 1 ELSE Greatest(other) + 1
    IN  [run |-> SubSeq(text, first, last), label |-> SubSeq(text, 1, first - 1)]

\* one to three digits, then one or more groups of a comma and three digits
IsGrouped(run) ==
    \E k \in 1..3 :
        /\ Len(run) > k /\ (Len(run) - k) % 4 = 0
        /\ \A i \in 1..k : run[i] \in AsciiDigit
        /\ \A j \in 1..(Len(run) - k) :
               IF j % 4 = 1 THEN run[k + j] = 44 ELSE run[k + j] \in AsciiDigit

\* C14: a group that is not noise and whose text ends in a comma-grouped
\* integer (コーヒー 1,200) gives a line whose amount is the whole integer
\* with the commas removed (1200) and whose item is the label before it,
\* with none of the digits of the amount.
C14_CommaGroupedAmount ==
    Grouped =>
        \A g \in Range(el.groups) :
            LET t     == TrailingGrouped(JoinTokens(Toks(g)))
                label == Strip(Replace(t.label, 165, <<>>), Separators)
            IN  ~HardNoise(CleanText(Toks(g))) /\ IsGrouped(t.run) /\ label # <<>> =>
                    ItemsFrom(g) = {[item |-> label, amount |-> int(Replace(t.run, 44, <<>>))]}

\* C15: the raw_text of every line is the text of its group as it was joined
\* from the tokens, before any cleaning: the currency sign and the commas
\* are still there.
C15_RawTextIsUncleaned ==
    Grouped =>
        \A g \in Range(el.groups) : \A l \in LinesFrom(g) :
            l.raw_text = JoinTokens(Toks(g))

\* C16: every line extract_lines returns has an amount that is not negative,
\* an item with something left after trimming, the confidence 0.9, and
\* y_min <= y_max, the least and the greatest y of the tokens of its group.
C16_LineInvariant ==
    el.pc = "returned" =>
        \A i \in 1..Len(el.out) :
            LET l == el.out[i]
            IN  /\ l.amount >= 0
                /\ Strip(l.item, Separators \cup Whitespace) # <<>>
                /\ l.confidence = <<9, 10>>
                /\ l.y_min <= l.y_max
                /\ \E g \in Range(el.groups) :
                       /\ l.y_min = Least(Range(Ys(g)))
                       /\ l.y_max = Greatest(Range(Ys(g)))
                       /\ \A y \in Range(Ys(g)) : l.y_min <= y /\ y <= l.y_max

\* a line whose group spans several y
C16_Witness ==
    /\ el.pc = "returned"
    /\ \E i \in 1..Len(el.out) :
          /\ el.out[i].y_min < el.out[i].y_max
          /\ el.out[i].amount > 0

\* what the coarse filter is to drop: an amount over 300,000, an item of
\* fewer than two characters once trimmed, an item with a boilerplate pattern
Coarse(item, amount) ==
    \/ amount > 300000
    \/ Len(Strip(item, Whitespace)) < 2
    \/ _SKIP_RE(item)

\* the review lists the session holds: none, or the one of the last upload
ReviewLists == Range(up.session.ocr_initial)

\* C17: ReceiptUploadView never puts in session["ocr_initial"] a line whose
\* amount exceeds 300,000, whose trimmed item is shorter than two characters
\* or whose item matches a skip pattern; when extract_lines has returned, the
\* view has not failed, and the review list is the other lines, in the order
\* extract_lines returned them.
C17_CoarseFilter ==
    /\ \A initial \in ReviewLists : \A r \in Range(initial) : ~Coarse(r.item, r.amount)
    /\ el.pc = "returned" =>
           /\ up.pc = "review"
           /\ ReviewLists # {}
           /\ LET kept == SelectSeq(el.out, LAMBDA l : ~Coarse(l.item, l.amount))
              IN  \A initial \in ReviewLists :
                      /\ Len(initial) = Len(kept)
                      /\ \A i \in 1..Len(kept) :
                             /\ initial[i].item = Strip(kept[i].item, Whitespace)
                             /\ initial[i].amount = kept[i].amount
                             /\ initial[i].raw_text = kept[i].raw_text

\* おにぎり 250円 and パン 500000 are extracted, and only the first is listed
C17_Witness ==
    /\ el.pc = "returned"
    /\ Len(el.out) = 2
    /\ el.out[1].amount = 250
    /\ el.out[2].amount = 500000
    /\ up.session.ocr_initial =
           << << [item |-> el.out[1].item, amount |-> 250, category |-> None,
                  raw_text |-> el.out[1].raw_text] >> >>

\* the step in which _preprocess reads a seekable stream
ReadsSeekableStream ==
    /\ image.pc = "open" /\ image'.pc \in {"sent", "raised"}
    /\ image.kind \in {"UploadedFile", "file"}
    /\ image.seekable

\* C18: when extract_lines has read the image bytes from a seekable stream,
\* a Django UploadedFile or any other file-like object, the cursor of the
\* stream is where it was before the call.
C18_CursorRestored == [][ReadsSeekableStream => image'.pos = image.pos]_vars

\* the same for the file-like objects that are not an UploadedFile
C18_FileLikeRestored ==
    [][ReadsSeekableStream /\ image.kind = "file" => image'.pos = image.pos]_vars

Accepted ==
    /\ CATEGORY_AI.enabled
    /\ provider.answered
    /\ provider.score >= CATEGORY_AI.threshold

C20_RemoteTierIsAbsent ==
    call.made /\ call.user_choice = None /\ CallMatching = {} /\ CallHits = {}
        => call.result = None /\ "cloud" \in Range(call.consulted)

(***************************************************************************)
(* Properties of the calls over a database that holds rows                 *)
(***************************************************************************)
\* the rows of Category and CategoryRule, with the order the database
\* returns equal names in
Stored == <<categories, heapFirst, rules>>

\* C21: no step of extract_lines, parse_receipt or guess_category -- the
\* request, the answer (lines returned or exception raised), the category
\* guessed for each row, the return -- writes a row of Category or of
\* CategoryRule: the database after the step is the database before it.
C21_CoreCallsWriteNothing == [][Stored' = Stored]_vars

\* parse_receipt has returned rows over a database that holds categories and
\* rules: one row got a category, another hit a dictionary word whose
\* category does not exist and got none
C21_ParsedOverStoredRows ==
    /\ pr.pc = "returned"
    /\ categories # {}
    /\ rules # <<>>
    /\ \E i \in 1..Len(pr.results) : pr.results[i].category # None
    /\ \E i \in 1..Len(pr.results) :
          /\ pr.results[i].category = None
          /\ \E k \in 1..Len(NormalizedScan) :
                /\ Contains(_norm(pr.results[i].item \o <<32>>), NormalizedScan[k].word)
                /\ \A c \in categories : c.name # NormalizedScan[k].name

(***************************************************************************)
(* Properties of uploads served at the same time                           *)
(***************************************************************************)
\* extract_lines run on its own on each response
Alone ==
    [resp \in ReceiptResponses |->
        OnResponse([Idle EXCEPT !.pc = "awaiting", !.requests = 1], resp)] @@ <<>>

\* the initial rows form_valid computes from the lines of each response run
\* on its own, over each database
InitialAlone ==
    [resp \in ReceiptResponses, db \in Databases |->
        InitialOf(Alone[resp].out, db.rules, db.categories, db.heapFirst,
                  [enabled |-> FALSE, threshold |-> 65])] @@ <<>>

\* C22: under every interleaving of the uploads' steps, what an upload holds
\* is what it would hold had it run alone against the same stores: its tokens,
\* groups and lines are those of extract_lines on its own response, it fails
\* exactly when its own response is an error, and its initial rows (items,
\* amounts, categories) are those form_valid computes from its own lines.
C22_UploadsAreIsolated ==
    \A u \in 1..Len(uploads) :
        /\ uploads[u].pc \in {"extracted", "done", "failed"} =>
              /\ uploads[u].el = Alone[uploads[u].el.resp]
              /\ (uploads[u].pc = "failed") = (uploads[u].el.resp.error # <<>>)
        /\ uploads[u].pc = "done" =>
              uploads[u].initial \in
                  InitialAlone[uploads[u].el.resp,
                               [categories |-> categories, heapFirst |-> heapFirst,
                                rules |-> rules]]

\* two uploads of one browser session are in flight together, each holding
\* the lines of its own receipt, and the first got a category for a row
C22_TwoUploadsInFlight ==
    /\ Len(uploads) >= 2
    /\ uploads[1].sid = uploads[2].sid
    /\ uploads[1].pc = "extracted"
    /\ uploads[2].pc = "extracted"
    /\ uploads[1].el.out # <<>>
    /\ uploads[2].el.out # <<>>
    /\ uploads[1].el.out # uploads[2].el.out
    /\ \E initial \in InitialOf(uploads[1].el.out, rules, categories, heapFirst, CATEGORY_AI) :
          \E i \in 1..Len(initial) : initial[i].category # None

(***************************************************************************)
(* Properties of the boundaries between groups                             *)
(***************************************************************************)
\* the statement of C23 as first written: the first token of a group lies
\* more than 15 below the last token of the group closed before it
C23_BoundariesAreGaps ==
    Grouped =>
        \A g \in 2..Len(el.groups) :
            el.groups[g][1].y - Last(el.groups[g - 1]).y > 15

\* C23: whenever the grouper closes a group and starts a new one, the y of
\* the first token of the new group exceeds the smoothed anchor of the closed
\* group by more than 15; hence it exceeds the y of the closed group's first
\* token by more than 15 and the y of its last token by more than 3, and by
\* more than 15 when the closed group holds a single token.
C23_BoundariesAreAnchorGaps ==
    Grouped =>
        \A g \in 2..Len(el.groups) :
            LET closed == el.groups[g - 1]
                y == el.groups[g][1].y
                n == Len(closed)
            IN  /\ y * 5 ^ (n - 1) - AnchorTimes(Ys(closed)) > 15 * 5 ^ (n - 1)
                /\ y - closed[1].y > 15
                /\ y - Last(closed).y > 3
                /\ n = 1 => y - Last(closed).y > 15

\* a group was closed and the next one begins with a token that is within
\* 15 of the closed group's last token
C23_SplitWithinGap ==
    /\ Grouped
    /\ \E g \in 2..Len(el.groups) :
          /\ Len(el.groups[g - 1]) > 1
          /\ el.groups[g][1].y - Last(el.groups[g - 1]).y <= 15

(***************************************************************************)
(* Properties of the bytes read from the image source                      *)
(***************************************************************************)
\* C24: whatever the kind of the source (bytes-like buffer, UploadedFile,
\* other file-like object, path) and wherever its cursor was when it was
\* passed in, the bytes _to_bytes hands to the normalizer, and so to the OCR
\* request, are the whole content of the source.
C24_WholeContentRead ==
    image.pc = "sent" => image.raw = image.data

\* the same for the sources the code reads from the start: buffers, paths,
\* an UploadedFile that can be rewound, and streams passed in at offset 0
C24_WholeContentFromStart ==
    [][ /\ image.pc = "open" /\ image'.pc = "sent"
        /\ \/ image.kind \in {"bytes", "path"}
           \/ image.kind = "UploadedFile" /\ image.seekable
           \/ image.pos = 0
        => image'.raw = image.data ]_vars

(***************************************************************************)
(* Properties of ExpenseForm                                               *)
(***************************************************************************)
\* the categories guess_category(item, "") can return for the item of the
\* form, stripped, over the stores
FormGuesses ==
    { o.result : o \in guess_category(Strip(form.item, Whitespace), <<>>, None, rules,
                                      categories, heapFirst, CATEGORY_AI) }

\* C25: through clean and then save, an expense submitted with a category
\* selected is stored with exactly that category, whatever the rules and the
\* dictionary say; an expense submitted with none is stored with what
\* guess_category(item, memo) returns, that is, uncategorized when it
\* returns None.  A submission that does not validate stores nothing.
C25_ManualCategoryKept ==
    /\ form.pc = "saved" =>
          LET row == expenses[form.instance]
          IN  /\ row.item = Strip(form.item, Whitespace)
              /\ row.amount = form.amount
              /\ form.category # None => row.category = form.category
              /\ form.category = None => row.category \in FormGuesses
    /\ form.pc = "invalid" => ~FieldsValid(form.item, form.amount, form.category, categories)

\* an expense was stored with the category selected although a rule or the
\* dictionary gives its item another category
C25_ManualAgainstGuess ==
    /\ form.pc = "saved"
    /\ form.category # None
    /\ expenses[form.instance].category = form.category
    /\ None \notin FormGuesses
    /\ form.category \notin FormGuesses

====
